---- MODULE Spec2Model ----
\* A model of the event analytics engine (EventAnalyzer): the record list
\* loaded from the persisted snapshot, and the aggregation passes over it;
\* of the server that loads the engine and answers requests from it; of the
\* fetch script that writes the snapshot; and of the dashboard's talk list.
EXTENDS Integers, Sequences, FiniteSets, TLC

VARIABLES
    data,     \* this.data: the parsed snapshot document
    talks,    \* this.talks: the record list the passes read
    loaded,   \* history: the record list as it was when the constructor returned
    results,  \* history: the latest value returned by each operation
    now,      \* the wall clock read by new Date()
    file,     \* the persisted snapshot ./output.json
    server,   \* the server process: where it is, its exit code, its last response
    text,     \* history: the argument of cleanText, and what the engine's and
              \* the dashboard's cleanText returned for it
    fetcher,  \* the fetch script's run: where main() is, its locals, and the
              \* history of its requests and of the pages it received
    dashboard \* the dashboard: its page and filters, the debounce timer, the
              \* /api/talks requests in flight, and talksData

vars == <<data, talks, loaded, results, now, file, server, text, fetcher, dashboard>>

----------------------------------------------------------------------------
\* Bounds of the model.

MaxTalks == 3        \* longest record list of the single-pass specifications
MaxMixedTalks == 2   \* longest record list of the all-passes specification
MaxClock == 1        \* last clock value
MaxShapeTalks == 1   \* longest items list of the document-shape specification
MaxServerTalks == 2  \* longest record list of the server specification
MaxListedTalks == 2  \* longest record list of the talk-listing specification
MaxTextLen == 4      \* longest text drawn from TextChars
MaxPagedTalks == 3   \* longest record list paged through
MaxDashTalks == 13   \* records the dashboard's server lists
MaxRequests == 3     \* most loadTalks calls of a dashboard
MaxPages == 3        \* most pages the API reports through totalSearchItems

----------------------------------------------------------------------------
\* JavaScript values.  A string-valued field holds a string or is absent; an
\* absent field reads as undefined.  No input string is the text "undefined".

Undefined == "undefined"

\* ToBoolean of a string-or-undefined value.
Truthy(v) == v # Undefined /\ v # ""

\* a || b
Or(a, b) == IF Truthy(a) THEN a ELSE b

\* An optional list or number: <<>> when the field is absent, <<x>> otherwise.
None == <<>>
Some(x) == <<x>>
IsSome(o) == o # <<>>
Get(o) == o[1]

\* value && value.length > 0 of an optional list (lines 75, 117, 239)
NonEmptyList(o) == IsSome(o) /\ Len(Get(o)) > 0

RECURSIVE SumSeq(_)
SumSeq(s) == IF s = <<>> THEN 0 ELSE Head(s) + SumSeq(Tail(s))

RECURSIVE MaxSeq(_)
MaxSeq(s) == IF s = <<>> THEN 0 ELSE
    LET m == MaxSeq(Tail(s)) IN IF Head(s) > m THEN Head(s) ELSE m

\* Math.round(sum / n) of non-negative integers, n > 0: halves round up.
MathRound(sum, n) == (2 * sum + n) \div (2 * n)

\* (sum / n).toFixed(1), n > 0, as the pair <<integer part, decimal digit>>.
\* toFixed takes the nearest tenth and the larger one on an exact tie; for
\* n < 20 a tie is a quotient ending in .25 or .75, which a double holds
\* exactly.
ToFixed1(sum, n) ==
    LET tenths == (20 * sum + n) \div (2 * n)
    IN <<tenths \div 10, tenths % 10>>

\* parseFloat of a one-decimal string: the number, in tenths.
ParseFloat1(str) == 10 * str[1] + str[2]

----------------------------------------------------------------------------
\* A plain object used as an accumulator: its own properties as a sequence of
\* <<key, value>> pairs in property enumeration order.  Keys that are
\* canonical array indices come first, in ascending numeric order; the other
\* keys follow in insertion order.

\* The numeric value of a key that is a canonical array index, else -1.
ArrayIndex(k) ==
    CASE k = "7" -> 7
      [] k = "12" -> 12
      [] k = "2025" -> 2025
      [] OTHER -> -1

ObjHas(o, k) == \E i \in 1..Len(o) : o[i][1] = k

ObjPos(o, k) == CHOOSE i \in 1..Len(o) : o[i][1] = k

\* o[k] || dflt
ObjGetOr(o, k, dflt) == IF ObjHas(o, k) THEN o[ObjPos(o, k)][2] ELSE dflt

\* o[k] = v
ObjSet(o, k, v) ==
    IF ObjHas(o, k) THEN [o EXCEPT ![ObjPos(o, k)] = <<k, v>>]
    ELSE IF ArrayIndex(k) >= 0
    THEN LET p == Cardinality({i \in 1..Len(o) :
                      ArrayIndex(o[i][1]) >= 0 /\ ArrayIndex(o[i][1]) < ArrayIndex(k)})
         IN SubSeq(o, 1, p) \o << <<k, v>> >> \o SubSeq(o, p + 1, Len(o))
    ELSE Append(o, <<k, v>>)

\* o[k] = (o[k] || 0) + 1
ObjInc(o, k) == ObjSet(o, k, ObjGetOr(o, k, 0) + 1)

ObjKeys(o) == [i \in 1..Len(o) |-> o[i][1]]
ObjValues(o) == [i \in 1..Len(o) |-> o[i][2]]

\* An object whose keys are numbers (the talk counts of line 145): every key
\* is an array index, so the properties are in ascending key order.
NumObjInc(o, n) ==
    IF \E i \in 1..Len(o) : o[i][1] = n
    THEN [i \in 1..Len(o) |-> IF o[i][1] = n THEN <<n, o[i][2] + 1>> ELSE o[i]]
    ELSE LET p == Cardinality({i \in 1..Len(o) : o[i][1] < n})
         IN SubSeq(o, 1, p) \o << <<n, 1>> >> \o SubSeq(o, p + 1, Len(o))

\* A Map: <<key, value>> pairs in insertion order, whatever the keys.
MapHas(m, k) == \E i \in 1..Len(m) : m[i][1] = k
MapSet(m, k, v) ==
    IF MapHas(m, k)
    THEN [i \in 1..Len(m) |-> IF m[i][1] = k THEN <<k, v>> ELSE m[i]]
    ELSE Append(m, <<k, v>>)
MapValues(m) == [i \in 1..Len(m) |-> m[i][2]]

\* Array.prototype.sort with a comparator (a, b) => b.count - a.count, over
\* <<count, element>> pairs: a stable sort, descending by count.
RECURSIVE InsertDesc(_, _)
InsertDesc(sorted, e) ==
    IF sorted = <<>> THEN <<e>>
    ELSE IF Head(sorted)[1] >= e[1]
         THEN <<Head(sorted)>> \o InsertDesc(Tail(sorted), e)
         ELSE <<e>> \o sorted

RECURSIVE SortDesc(_)
SortDesc(s) ==
    IF s = <<>> THEN <<>>
    ELSE InsertDesc(SortDesc(SubSeq(s, 1, Len(s) - 1)), s[Len(s)])

----------------------------------------------------------------------------
\* The snapshot document and the record list.

\* null, and a value that is an object and not an array (written as a tuple,
\* as it stands where a list may stand; no list holds its element).
Null == [null |-> TRUE]
NotArray == <<[object |-> TRUE]>>

\* Array.isArray(v), v an array or NotArray
IsArray(v) == v # NotArray

\* extractTalks (lines 10-23).  The nested items are taken whenever they are
\* truthy: an array, even an empty one, is truthy, and so is an object that is
\* not an array.  The top-level items are taken when they are an array.
extractTalks(doc) ==
    IF IsSome(doc.sectionList) /\ Len(Get(doc.sectionList)) > 0
       /\ IsSome(Get(doc.sectionList)[1].items)
    THEN Get(Get(doc.sectionList)[1].items)
    ELSE IF IsSome(doc.items) /\ IsArray(Get(doc.items)) THEN Get(doc.items)
    ELSE <<>>

\* The two document shapes the fetch script writes.
SectionDoc(list) == [sectionList |-> Some(<<[items |-> Some(list)]>>), items |-> None]
ItemsDoc(list) == [sectionList |-> None, items |-> Some(list)]

----------------------------------------------------------------------------
\* getAverageTalkLength (lines 224-231)

RECURSIVE ValidLengths(_)
ValidLengths(t) ==
    IF t = <<>> THEN <<>>
    ELSE IF IsSome(Head(t).length) /\ Get(Head(t).length) # 0
         THEN <<Get(Head(t).length)>> \o ValidLengths(Tail(t))
         ELSE ValidLengths(Tail(t))

getAverageTalkLength(t) ==
    LET lengths == ValidLengths(t)
    IN IF Len(lengths) > 0 THEN MathRound(SumSeq(lengths), Len(lengths)) ELSE 60

----------------------------------------------------------------------------
\* getBasicStats (lines 32-63)

\* A mutation of the key: the id is consulted before the code.
TalkKeyIdFirst(talk) == Or(Or(talk.id, talk.code), talk.title)

\* const key = talk.code || talk.id || talk.title (line 37)
TalkKey(talk) == Or(Or(talk.code, talk.id), talk.title)

\* A mutation of the forEach: a later record of a key replaces the earlier.
RECURSIVE UniqueTalksLastWins(_, _)
UniqueTalksLastWins(t, m) ==
    IF t = <<>> THEN m
    ELSE UniqueTalksLastWins(Tail(t), MapSet(m, TalkKey(Head(t)), Head(t)))

\* The forEach of lines 36-41, from the Map m on.
RECURSIVE UniqueTalks(_, _)
UniqueTalks(t, m) ==
    IF t = <<>> THEN m
    ELSE LET key == TalkKey(Head(t))
         IN UniqueTalks(Tail(t), IF MapHas(m, key) THEN m ELSE MapSet(m, key, Head(t)))

\* A mutation of the type count: a talk without a type is not counted.
RECURSIVE CountTypesSkipUntyped(_, _)
CountTypesSkipUntyped(us, acc) ==
    IF us = <<>> THEN acc
    ELSE CountTypesSkipUntyped(Tail(us),
            IF Truthy(Head(us).type) THEN ObjInc(acc, Head(us).type) ELSE acc)

\* The forEach of lines 47-55: the type counts, from the object acc on.
RECURSIVE CountTypes(_, _)
CountTypes(us, acc) ==
    IF us = <<>> THEN acc
    ELSE CountTypes(Tail(us), ObjInc(acc, Or(Head(us).type, "Unknown")))

\* The forEach of lines 47-55: the language counts.
RECURSIVE CountLanguages(_, _)
CountLanguages(us, acc) ==
    IF us = <<>> THEN acc
    ELSE CountLanguages(Tail(us), ObjInc(acc, Or(Head(us).language, "Unknown")))

getBasicStats(t) ==
    LET uniqueTalks == UniqueTalks(t, <<>>)
    IN [totalTalks |-> Len(uniqueTalks),
        talkTypes |-> CountTypes(MapValues(uniqueTalks), <<>>),
        languages |-> CountLanguages(MapValues(uniqueTalks), <<>>),
        avgTalkLength |-> getAverageTalkLength(t)]

----------------------------------------------------------------------------
\* getScheduleAnalysis (lines 66-108)

\* A mutation of the visit: only the first time slot of a record is counted.
RECURSIVE FirstTimes(_)
FirstTimes(t) ==
    IF t = <<>> THEN <<>>
    ELSE (IF NonEmptyList(Head(t).times) THEN <<Get(Head(t).times)[1]>> ELSE <<>>)
         \o FirstTimes(Tail(t))

\* The time slots the nested forEach of lines 74-95 visits, in visiting order.
RECURSIVE AllTimes(_)
AllTimes(t) ==
    IF t = <<>> THEN <<>>
    ELSE (IF NonEmptyList(Head(t).times) THEN Get(Head(t).times) ELSE <<>>)
         \o AllTimes(Tail(t))

\* time.startTimeFormatted || time.startTime (line 78)
TimeSlotOf(time) == Or(time.startTimeFormatted, time.startTime)

\* `${date}_${timeSlot}` (line 80); an undefined part prints as "undefined".
DayTimeKey(time) == time.date \o "_" \o TimeSlotOf(time)

\* The body of the inner forEach (lines 77-92) on one time slot.
ScheduleStep(acc, time) ==
    [byDay |-> ObjInc(acc.byDay, time.date),
     byTimeSlot |-> ObjInc(acc.byTimeSlot, TimeSlotOf(time)),
     byRoom |-> ObjInc(acc.byRoom, Or(time.room, "Virtual/TBD")),
     parallelSessions |-> ObjInc(acc.parallelSessions, DayTimeKey(time))]

RECURSIVE ScheduleFold(_, _)
ScheduleFold(times, acc) ==
    IF times = <<>> THEN acc
    ELSE ScheduleFold(Tail(times), ScheduleStep(acc, Head(times)))

\* A mutation of the mean: the sum is divided by the number of days.
AvgParallelPerDay(scheduleData) ==
    LET parallelCounts == ObjValues(scheduleData.parallelSessions)
    IN IF Len(parallelCounts) > 0
       THEN ParseFloat1(ToFixed1(SumSeq(parallelCounts), Len(scheduleData.byDay)))
       ELSE 0

\* avgParallelSessions (lines 98-100, 104), in tenths.
AvgParallel(scheduleData) ==
    LET parallelCounts == ObjValues(scheduleData.parallelSessions)
    IN IF Len(parallelCounts) > 0
       THEN ParseFloat1(ToFixed1(SumSeq(parallelCounts), Len(parallelCounts)))
       ELSE 0

\* scheduleData after the forEach of lines 74-95.
ScheduleData(t) ==
    ScheduleFold(AllTimes(t),
        [byDay |-> <<>>, byTimeSlot |-> <<>>, byRoom |-> <<>>, parallelSessions |-> <<>>])

getScheduleAnalysis(t) ==
    LET scheduleData == ScheduleData(t)
    IN [byDay |-> scheduleData.byDay,
        byTimeSlot |-> scheduleData.byTimeSlot,
        byRoom |-> scheduleData.byRoom,
        parallelSessions |-> scheduleData.parallelSessions,
        avgParallelSessions |-> AvgParallel(scheduleData),
        maxParallelSessions |-> MaxSeq(ObjValues(scheduleData.parallelSessions)),
        totalTimeSlots |-> Len(ObjKeys(scheduleData.parallelSessions))]

----------------------------------------------------------------------------
\* getSpeakerAnalysis (lines 111-168)

\* The <<talk, participant>> pairs the nested forEach of lines 116-148
\* visits, in visiting order.
RECURSIVE PairsOf(_, _)
PairsOf(talk, ps) ==
    IF ps = <<>> THEN <<>> ELSE << <<talk, Head(ps)>> >> \o PairsOf(talk, Tail(ps))

RECURSIVE AllParticipants(_)
AllParticipants(t) ==
    IF t = <<>> THEN <<>>
    ELSE (IF NonEmptyList(Head(t).participants)
          THEN PairsOf(Head(t), Get(Head(t).participants)) ELSE <<>>)
         \o AllParticipants(Tail(t))

\* A mutation of the key: the name is consulted before the speakerId.
SpeakerKeyNameFirst(participant) ==
    Or(Or(participant.fullName, participant.speakerId), "Unknown")

\* participant.speakerId || participant.fullName || 'Unknown' (line 119)
SpeakerKey(participant) ==
    Or(Or(participant.speakerId, participant.fullName), "Unknown")

\* The {title, code, type} element of line 134.
TalkRef(talk) == [title |-> talk.title, code |-> talk.code, type |-> talk.type]

\* Lines 124-132: the entry of a speaker seen for the first time.
NewSpeaker(participant) ==
    [name |-> Or(Or(participant.fullName, participant.globalFullName),
                 SpeakerKey(participant)),
     company |-> Or(Or(participant.companyName, participant.globalCompany), "Unknown"),
     jobTitle |-> Or(Or(participant.jobTitle, participant.globalJobtitle), ""),
     talkCount |-> 0,
     talks |-> <<>>]

\* A mutation of the body: a talk already in the speaker's list (same code)
\* is not counted again.
SpeakerStepOncePerCode(acc, talk, participant) ==
    LET speakerId == SpeakerKey(participant)
        company == Or(Or(participant.companyName, participant.globalCompany), "Unknown")
        before == ObjGetOr(acc.speakers, speakerId, NewSpeaker(participant))
        seen == \E i \in 1..Len(before.talks) : before.talks[i].code = talk.code
        after == IF seen THEN before
                 ELSE [before EXCEPT !.talkCount = @ + 1,
                                     !.talks = Append(@, TalkRef(talk))]
    IN [speakers |-> ObjSet(acc.speakers, speakerId, after),
        companies |-> ObjInc(acc.companies, company),
        speakerTalkCounts |-> NumObjInc(acc.speakerTalkCounts, after.talkCount)]

\* The body of the inner forEach (lines 119-145) on one participant.
SpeakerStep(acc, talk, participant) ==
    LET speakerId == SpeakerKey(participant)
        company == Or(Or(participant.companyName, participant.globalCompany), "Unknown")
        before == ObjGetOr(acc.speakers, speakerId, NewSpeaker(participant))
        after == [before EXCEPT !.talkCount = @ + 1,
                                !.talks = Append(@, TalkRef(talk))]
    IN [speakers |-> ObjSet(acc.speakers, speakerId, after),
        companies |-> ObjInc(acc.companies, company),
        speakerTalkCounts |-> NumObjInc(acc.speakerTalkCounts, after.talkCount)]

RECURSIVE SpeakerFold(_, _)
SpeakerFold(pairs, acc) ==
    IF pairs = <<>> THEN acc
    ELSE SpeakerFold(Tail(pairs), SpeakerStep(acc, Head(pairs)[1], Head(pairs)[2]))

\* speakers, companies and speakerTalkCounts after the forEach of lines 116-148.
SpeakerData(t) ==
    SpeakerFold(AllParticipants(t),
        [speakers |-> <<>>, companies |-> <<>>, speakerTalkCounts |-> <<>>])

\* Object.values(speakers).sort((a, b) => b.talkCount - a.talkCount) (line 162)
SortedSpeakers(speakers) ==
    LET vals == ObjValues(speakers)
        sorted == SortDesc([i \in 1..Len(vals) |-> <<vals[i].talkCount, vals[i]>>])
    IN [i \in 1..Len(sorted) |-> sorted[i][2]]

\* Object.entries(companies).map(...).sort((a, b) => b.count - a.count)
\* (lines 163-165)
SortedCompanies(companies) ==
    LET sorted == SortDesc([i \in 1..Len(companies) |->
                      <<companies[i][2], [name |-> companies[i][1], count |-> companies[i][2]]>>])
    IN [i \in 1..Len(sorted) |-> sorted[i][2]]

getSpeakerAnalysis(t) ==
    LET d == SpeakerData(t)
        talkCounts == [i \in 1..Len(d.speakers) |-> d.speakers[i][2].talkCount]
    IN [totalSpeakers |-> Len(ObjKeys(d.speakers)),
        totalCompanies |-> Len(ObjKeys(d.companies)),
        avgTalksPerSpeaker |->
            IF Len(talkCounts) > 0
            THEN ParseFloat1(ToFixed1(SumSeq(talkCounts), Len(talkCounts))) ELSE 0,
        speakers |-> SortedSpeakers(d.speakers),
        companies |-> SortedCompanies(d.companies),
        speakerTalkDistribution |-> d.speakerTalkCounts]

----------------------------------------------------------------------------
\* Text.  A pass that reads the characters of a string sees it as a sequence
\* of one-character strings.

\* The stop words of lines 174-178.
commonWords ==
    {"the", "and", "or", "but", "in", "on", "at", "to", "for", "of",
     "with", "by", "from", "up", "about", "into", "through", "during",
     "before", "after", "above", "below", "between", "among", "under",
     "over", "a", "an", "this", "that", "these", "those", "will", "be",
     "are", "is", "was", "were", "been", "being", "have", "has", "had",
     "do", "does", "did", "can", "could", "should", "would", "may",
     "might", "must", "how", "what", "when", "where", "why", "who",
     "which", "your", "our", "their", "its", "his", "her", "my", "we",
     "you", "they", "it", "he", "she", "i", "me", "us", "them", "him"}

\* The technology keywords of lines 180-185, as character sequences.
techKeywords ==
    << <<"a", "i">>,
      <<"a", "r", "t", "i", "f", "i", "c", "i", "a", "l", " ", "i", "n", "t", "e", "l", "l", "i", "g", "e", "n", "c", "e">>,
      <<"m", "a", "c", "h", "i", "n", "e", " ", "l", "e", "a", "r", "n", "i", "n", "g">>,
      <<"m", "l">>, <<"l", "l", "m">>,
      <<"g", "e", "n", "e", "r", "a", "t", "i", "v", "e">>,
      <<"k", "u", "b", "e", "r", "n", "e", "t", "e", "s">>,
      <<"o", "p", "e", "n", "s", "h", "i", "f", "t">>,
      <<"r", "e", "d", " ", "h", "a", "t">>, <<"c", "l", "o", "u", "d">>,
      <<"h", "y", "b", "r", "i", "d">>, <<"d", "o", "c", "k", "e", "r">>,
      <<"c", "o", "n", "t", "a", "i", "n", "e", "r">>,
      <<"m", "i", "c", "r", "o", "s", "e", "r", "v", "i", "c", "e", "s">>,
      <<"a", "p", "i">>, <<"r", "e", "s", "t">>,
      <<"g", "r", "a", "p", "h", "q", "l">>,
      <<"d", "a", "t", "a", "b", "a", "s", "e">>, <<"s", "q", "l">>,
      <<"n", "o", "s", "q", "l">>, <<"m", "o", "n", "g", "o", "d", "b">>,
      <<"p", "o", "s", "t", "g", "r", "e", "s", "q", "l">>,
      <<"a", "u", "t", "o", "m", "a", "t", "i", "o", "n">>,
      <<"d", "e", "v", "o", "p", "s">>, <<"c", "i", "c", "d">>,
      <<"p", "i", "p", "e", "l", "i", "n", "e">>,
      <<"j", "e", "n", "k", "i", "n", "s">>,
      <<"a", "n", "s", "i", "b", "l", "e">>,
      <<"t", "e", "r", "r", "a", "f", "o", "r", "m">>,
      <<"s", "e", "c", "u", "r", "i", "t", "y">>,
      <<"c", "y", "b", "e", "r", "s", "e", "c", "u", "r", "i", "t", "y">>,
      <<"e", "n", "c", "r", "y", "p", "t", "i", "o", "n">>,
      <<"a", "u", "t", "h", "e", "n", "t", "i", "c", "a", "t", "i", "o", "n">>,
      <<"o", "a", "u", "t", "h">>, <<"j", "w", "t">>,
      <<"b", "l", "o", "c", "k", "c", "h", "a", "i", "n">>,
      <<"i", "o", "t">>, <<"e", "d", "g", "e">>,
      <<"s", "e", "r", "v", "e", "r", "l", "e", "s", "s">>,
      <<"f", "u", "n", "c", "t", "i", "o", "n">>,
      <<"l", "a", "m", "b", "d", "a">>, <<"p", "o", "w", "e", "r">>,
      <<"m", "a", "i", "n", "f", "r", "a", "m", "e">>,
      <<"d", "a", "t", "a">>,
      <<"a", "n", "a", "l", "y", "t", "i", "c", "s">>,
      <<"v", "i", "s", "u", "a", "l", "i", "z", "a", "t", "i", "o", "n">>,
      <<"d", "a", "s", "h", "b", "o", "a", "r", "d">>,
      <<"m", "o", "n", "i", "t", "o", "r", "i", "n", "g">>,
      <<"o", "b", "s", "e", "r", "v", "a", "b", "i", "l", "i", "t", "y">>,
      <<"p", "e", "r", "f", "o", "r", "m", "a", "n", "c", "e">>,
      <<"s", "c", "a", "l", "i", "n", "g">>,
      <<"i", "n", "f", "r", "a", "s", "t", "r", "u", "c", "t", "u", "r", "e">>,
      <<"p", "l", "a", "t", "f", "o", "r", "m">>, <<"s", "a", "a", "s">>,
      <<"p", "a", "a", "s">>, <<"i", "a", "a", "s">> >>

\* The characters of a string, for every string whose characters a pass or a
\* request handler reads; the empty string and an absent value have none.
CharsOf(s) ==
    CASE s = "AI Lab" -> <<"A", "I", " ", "L", "a", "b">>
      [] s = "Data 101" -> <<"D", "a", "t", "a", " ", "1", "0", "1">>
      [] s = "Cloud" -> <<"C", "l", "o", "u", "d">>
      [] s = "T1" -> <<"T", "1">>
      [] s = "T2" -> <<"T", "2">>
      [] s = "<p>AI &amp; ML</p>" -> <<"<", "p", ">", "A", "I", " ", "&", "a", "m", "p", ";", " ", "M", "L", "<", "/", "p", ">">>
      [] s = "the" -> <<"t", "h", "e">>
      [] s = "  <b>Edge</b> &lt;io&gt; " -> <<" ", " ", "<", "b", ">", "E", "d", "g", "e", "<", "/", "b", ">", " ", "&", "l", "t", ";", "i", "o", "&", "g", "t", ";", " ">>
      [] s = "100" -> <<"1", "0", "0">>
      [] s = "50" -> <<"5", "0">>
      [] s = "12 seats" -> <<"1", "2", " ", "s", "e", "a", "t", "s">>
      [] s = "abc" -> <<"a", "b", "c">>
      [] s = "-5" -> <<"-", "5">>
      [] s = "-1" -> <<"-", "1">>
      [] s = "3" -> <<"3">>
      [] s = "12" -> <<"1", "2">>
      [] s = "4" -> <<"4">>
      [] s = "5" -> <<"5">>
      [] s = "0" -> <<"0">>
      [] s = "Ann" -> <<"A", "n", "n">>
      [] s = "Ann B." -> <<"A", "n", "n", " ", "B", ".">>
      [] s = "Bob" -> <<"B", "o", "b">>
      [] s = "Cy" -> <<"C", "y">>
      [] s = "Dee" -> <<"D", "e", "e">>
      [] s = "Eve" -> <<"E", "v", "e">>
      [] s = "ai" -> <<"a", "i">>
      [] s = "LAB" -> <<"L", "A", "B">>
      [] s = "ANN" -> <<"A", "N", "N">>
      [] s = "e" -> <<"e">>
      [] s = "1" -> <<"1">>
      [] s = "2" -> <<"2">>
      [] OTHER -> <<>>

\* String.prototype.toLowerCase on one character.
LowerChar(c) ==
    CASE c = "A" -> "a"
      [] c = "B" -> "b"
      [] c = "C" -> "c"
      [] c = "D" -> "d"
      [] c = "E" -> "e"
      [] c = "F" -> "f"
      [] c = "G" -> "g"
      [] c = "H" -> "h"
      [] c = "I" -> "i"
      [] c = "J" -> "j"
      [] c = "K" -> "k"
      [] c = "L" -> "l"
      [] c = "M" -> "m"
      [] c = "N" -> "n"
      [] c = "O" -> "o"
      [] c = "P" -> "p"
      [] c = "Q" -> "q"
      [] c = "R" -> "r"
      [] c = "S" -> "s"
      [] c = "T" -> "t"
      [] c = "U" -> "u"
      [] c = "V" -> "v"
      [] c = "W" -> "w"
      [] c = "X" -> "x"
      [] c = "Y" -> "y"
      [] c = "Z" -> "z"
      [] OTHER -> c

\* The string a character sequence spells.
RECURSIVE Join(_)
Join(cs) == IF cs = <<>> THEN "" ELSE Head(cs) \o Join(Tail(cs))

LowerCase(cs) == [i \in 1..Len(cs) |-> LowerChar(cs[i])]

IsSpace(c) == c \in {" ", "\t", "\n", "\r"}

\* String.prototype.trim
RECURSIVE TrimLeft(_)
TrimLeft(cs) ==
    IF cs # <<>> /\ IsSpace(Head(cs)) THEN TrimLeft(Tail(cs)) ELSE cs

RECURSIVE TrimRight(_)
TrimRight(cs) ==
    IF cs # <<>> /\ IsSpace(cs[Len(cs)])
    THEN TrimRight(SubSeq(cs, 1, Len(cs) - 1)) ELSE cs

Trim(cs) == TrimRight(TrimLeft(cs))

\* The least index >= from at which cs holds c, or 0.
FirstAt(cs, c, from) ==
    IF \E i \in from..Len(cs) : cs[i] = c
    THEN CHOOSE i \in from..Len(cs) :
            cs[i] = c /\ \A j \in from..(i - 1) : cs[j] # c
    ELSE 0

\* replace(/<[^>]*>/g, '') (line 28)
RECURSIVE StripTags(_)
StripTags(cs) ==
    IF cs = <<>> THEN <<>>
    ELSE IF Head(cs) = "<" /\ FirstAt(cs, ">", 2) > 0
         THEN StripTags(SubSeq(cs, FirstAt(cs, ">", 2) + 1, Len(cs)))
         ELSE <<Head(cs)>> \o StripTags(Tail(cs))

\* A mutation of the second replace: an entity is dropped, not made a space.
RECURSIVE ReplaceEntitiesDrops(_)
ReplaceEntitiesDrops(cs) ==
    IF cs = <<>> THEN <<>>
    ELSE IF Head(cs) = "&" /\ FirstAt(cs, ";", 2) > 2
         THEN ReplaceEntitiesDrops(SubSeq(cs, FirstAt(cs, ";", 2) + 1, Len(cs)))
         ELSE <<Head(cs)>> \o ReplaceEntitiesDrops(Tail(cs))

\* replace(/&[^;]+;/g, ' ') (line 28)
RECURSIVE ReplaceEntities(_)
ReplaceEntities(cs) ==
    IF cs = <<>> THEN <<>>
    ELSE IF Head(cs) = "&" /\ FirstAt(cs, ";", 2) > 2
         THEN <<" ">> \o ReplaceEntities(SubSeq(cs, FirstAt(cs, ";", 2) + 1, Len(cs)))
         ELSE <<Head(cs)>> \o ReplaceEntities(Tail(cs))

\* cleanText (lines 26-29), on the characters of the text
cleanText(cs) ==
    IF cs = <<>> THEN <<>> ELSE Trim(ReplaceEntities(StripTags(cs)))

\* cleanText(text) for a text that may be absent: !text holds of undefined
\* as of the empty string.
cleanTextOf(arg) == IF IsSome(arg) THEN cleanText(Get(arg)) ELSE <<>>

----------------------------------------------------------------------------
\* getTopicAnalysis (lines 171-221)

\* The characters of the class [.,;:!?()\\[\\] of line 190: inside it, \\ is
\* a backslash and the first unescaped ] closes the class.
SeparatorClass == {".", ",", ";", ":", "!", "?", "(", ")", "\\", "["}

\* What follows the class in the pattern of line 190: the characters {}"'-]
\* taken literally.
SeparatorTail == <<"{", "}", "\"", "'", "-", "]">>

\* The length of the run of c that starts at index i of cs.
RECURSIVE RunLen(_, _, _)
RunLen(cs, c, i) ==
    IF i <= Len(cs) /\ cs[i] = c THEN 1 + RunLen(cs, c, i + 1) ELSE 0

\* The length of the match of /\\s+|[.,;:!?()\\[\\]{}\"'-]/ at index i of cs,
\* or 0: \\s+ is a backslash followed by one or more letters s.
SeparatorAt(cs, i) ==
    IF cs[i] = "\\" /\ RunLen(cs, "s", i + 1) > 0
    THEN 1 + RunLen(cs, "s", i + 1)
    ELSE IF cs[i] \in SeparatorClass
           /\ i + Len(SeparatorTail) <= Len(cs)
           /\ SubSeq(cs, i + 1, i + Len(SeparatorTail)) = SeparatorTail
    THEN 1 + Len(SeparatorTail)
    ELSE 0

\* text.split(...) (line 190) from index i on, cur being the piece under way.
RECURSIVE SplitFrom(_, _, _)
SplitFrom(cs, i, cur) ==
    IF i > Len(cs) THEN <<cur>>
    ELSE IF SeparatorAt(cs, i) > 0
         THEN <<cur>> \o SplitFrom(cs, i + SeparatorAt(cs, i), <<>>)
         ELSE SplitFrom(cs, i + 1, Append(cur, cs[i]))

\* /^\\d+$/.test(word) (line 194): a backslash followed by letters d only.
DigitsTest(word) ==
    /\ Len(word) >= 2
    /\ word[1] = "\\"
    /\ \A i \in 2..Len(word) : word[i] = "d"

\* a.includes(b)
Includes(a, b) ==
    \E i \in 0..(Len(a) - Len(b)) : \A j \in 1..Len(b) : a[i + j] = b[j]

\* techKeywords.some(tech => word.includes(tech) || tech.includes(word))
IsTechnology(word) ==
    \E i \in 1..Len(techKeywords) :
        Includes(word, techKeywords[i]) \/ Includes(techKeywords[i], word)

\* The text of a record (line 189).
TopicText(talk) ==
    LowerCase(CharsOf(Or(talk.title, "")) \o <<" ">>
              \o cleanText(CharsOf(Or(talk.abstract, ""))))

\* The body of the inner forEach (lines 193-201) on one piece of the split.
WordStep(acc, piece) ==
    LET word == Trim(piece)
    IN IF Len(word) > 2 /\ Join(word) \notin commonWords /\ ~DigitsTest(word)
       THEN [words |-> ObjInc(acc.words, Join(word)),
             technologies |-> IF IsTechnology(word)
                              THEN ObjInc(acc.technologies, Join(word))
                              ELSE acc.technologies]
       ELSE acc

RECURSIVE WordFold(_, _)
WordFold(pieces, acc) ==
    IF pieces = <<>> THEN acc ELSE WordFold(Tail(pieces), WordStep(acc, Head(pieces)))

RECURSIVE TopicFold(_, _)
TopicFold(t, acc) ==
    IF t = <<>> THEN acc
    ELSE TopicFold(Tail(t), WordFold(SplitFrom(TopicText(Head(t)), 1, <<>>), acc))

\* Object.entries(obj).sort(([,a], [,b]) => b - a).slice(0, n) (lines 206-214)
TopEntries(obj, n) ==
    LET sorted == SortDesc([i \in 1..Len(obj) |-> <<obj[i][2], obj[i]>>])
    IN [i \in 1..(IF Len(sorted) < n THEN Len(sorted) ELSE n) |-> sorted[i][2]]

getTopicAnalysis(t) ==
    LET d == TopicFold(t, [words |-> <<>>, technologies |-> <<>>])
        tw == TopEntries(d.words, 100)
        tt == TopEntries(d.technologies, 50)
    IN [topWords |-> [i \in 1..Len(tw) |-> [word |-> tw[i][1], count |-> tw[i][2]]],
        topTechnologies |-> [i \in 1..Len(tt) |-> [tech |-> tt[i][1], count |-> tt[i][2]]],
        totalUniqueWords |-> Len(ObjKeys(d.words))]

----------------------------------------------------------------------------
\* getRoomAnalysis (lines 234-271)

DigitValue(c) ==
    CASE c = "0" -> 0 [] c = "1" -> 1 [] c = "2" -> 2 [] c = "3" -> 3
      [] c = "4" -> 4 [] c = "5" -> 5 [] c = "6" -> 6 [] c = "7" -> 7
      [] c = "8" -> 8 [] c = "9" -> 9 [] OTHER -> -1

\* The value of the leading decimal digits of cs, from the value acc on.
RECURSIVE DigitsValue(_, _)
DigitsValue(cs, acc) ==
    IF cs # <<>> /\ DigitValue(Head(cs)) >= 0
    THEN DigitsValue(Tail(cs), 10 * acc + DigitValue(Head(cs)))
    ELSE acc

\* parseInt(value) || 0 (line 242): leading white space is skipped, a sign is
\* read, then the leading digits; a text with no leading digit parses to NaN.
ParseIntOr0(value) ==
    LET cs == TrimLeft(CharsOf(value))
        negative == cs # <<>> /\ Head(cs) = "-"
        digits == IF cs # <<>> /\ Head(cs) \in {"-", "+"} THEN Tail(cs) ELSE cs
    IN IF digits = <<>> \/ DigitValue(Head(digits)) < 0 THEN 0
       ELSE IF negative THEN 0 - DigitsValue(digits, 0) ELSE DigitsValue(digits, 0)

\* A mutation of the body: only an occurrence with seats adds to sessionCount.
RoomStepCountsSeated(acc, time) ==
    LET roomName == Or(time.room, "Virtual/TBD")
        capacity == ParseIntOr0(time.capacity)
        before == ObjGetOr(acc.rooms, roomName,
                     [name |-> roomName, capacity |-> capacity,
                      sessionCount |-> 0, totalSeats |-> 0])
        after == [before EXCEPT !.sessionCount = IF capacity > 0 THEN @ + 1 ELSE @,
                                !.totalSeats = IF capacity > 0 THEN @ + capacity ELSE @]
    IN [rooms |-> ObjSet(acc.rooms, roomName, after),
        capacities |-> IF capacity > 0 THEN Append(acc.capacities, capacity)
                       ELSE acc.capacities]

\* The body of the inner forEach (lines 241-257) on one time slot.
RoomStep(acc, time) ==
    LET roomName == Or(time.room, "Virtual/TBD")
        capacity == ParseIntOr0(time.capacity)
        before == ObjGetOr(acc.rooms, roomName,
                     [name |-> roomName, capacity |-> capacity,
                      sessionCount |-> 0, totalSeats |-> 0])
        after == [before EXCEPT !.sessionCount = @ + 1,
                                !.totalSeats = IF capacity > 0 THEN @ + capacity ELSE @]
    IN [rooms |-> ObjSet(acc.rooms, roomName, after),
        capacities |-> IF capacity > 0 THEN Append(acc.capacities, capacity)
                       ELSE acc.capacities]

RECURSIVE RoomFold(_, _)
RoomFold(times, acc) ==
    IF times = <<>> THEN acc ELSE RoomFold(Tail(times), RoomStep(acc, Head(times)))

\* A mutation of the average: the divisor is the number of all occurrences.
getRoomAnalysisAveragesAll(t) ==
    LET d == RoomFold(AllTimes(t), [rooms |-> <<>>, capacities |-> <<>>])
        vals == ObjValues(d.rooms)
        sorted == SortDesc([i \in 1..Len(vals) |-> <<vals[i].sessionCount, vals[i]>>])
    IN [rooms |-> [i \in 1..Len(sorted) |-> sorted[i][2]],
        avgRoomCapacity |-> IF Len(AllTimes(t)) > 0
                            THEN MathRound(SumSeq(d.capacities), Len(AllTimes(t)))
                            ELSE 0,
        totalCapacity |-> SumSeq(d.capacities),
        totalRooms |-> Len(ObjKeys(d.rooms))]

getRoomAnalysis(t) ==
    LET d == RoomFold(AllTimes(t), [rooms |-> <<>>, capacities |-> <<>>])
        vals == ObjValues(d.rooms)
        sorted == SortDesc([i \in 1..Len(vals) |-> <<vals[i].sessionCount, vals[i]>>])
    IN [rooms |-> [i \in 1..Len(sorted) |-> sorted[i][2]],
        avgRoomCapacity |-> IF Len(d.capacities) > 0
                            THEN MathRound(SumSeq(d.capacities), Len(d.capacities))
                            ELSE 0,
        totalCapacity |-> SumSeq(d.capacities),
        totalRooms |-> Len(ObjKeys(d.rooms))]

----------------------------------------------------------------------------
\* getFullAnalysis (lines 274-283); clock is the value new Date() reads.

getFullAnalysis(t, clock) ==
    [basicStats |-> getBasicStats(t),
     schedule |-> getScheduleAnalysis(t),
     speakers |-> getSpeakerAnalysis(t),
     topics |-> getTopicAnalysis(t),
     rooms |-> getRoomAnalysis(t),
     lastUpdated |-> clock]

----------------------------------------------------------------------------
\* What a call gives its caller: the value the method returns, or the
\* TypeError it raises.  No method of the engine catches an exception.

TypeError == [threw |-> "TypeError"]

\* this.talks.forEach on a value that is not an array, and talk.code of a
\* null record (lines 36-37; also lines 74-75, 116-117, 188-189, 225, 238-239)
TalksRaise(t) == ~IsArray(t) \/ \E i \in 1..Len(t) : t[i] = Null

\* time.date of a null time slot (line 77; time.room, line 241)
TimesRaise(t) ==
    \E i \in 1..Len(t) :
        /\ NonEmptyList(t[i].times)
        /\ \E j \in 1..Len(Get(t[i].times)) : Get(t[i].times)[j] = Null

\* participant.speakerId of a null participant (line 119)
ParticipantsRaise(t) ==
    \E i \in 1..Len(t) :
        /\ NonEmptyList(t[i].participants)
        /\ \E j \in 1..Len(Get(t[i].participants)) : Get(t[i].participants)[j] = Null

getBasicStatsResult(t) ==
    IF TalksRaise(t) THEN TypeError ELSE getBasicStats(t)

getScheduleAnalysisResult(t) ==
    IF TalksRaise(t) \/ TimesRaise(t) THEN TypeError ELSE getScheduleAnalysis(t)

getSpeakerAnalysisResult(t) ==
    IF TalksRaise(t) \/ ParticipantsRaise(t) THEN TypeError ELSE getSpeakerAnalysis(t)

getTopicAnalysisResult(t) ==
    IF TalksRaise(t) THEN TypeError ELSE getTopicAnalysis(t)

getRoomAnalysisResult(t) ==
    IF TalksRaise(t) \/ TimesRaise(t) THEN TypeError ELSE getRoomAnalysis(t)

\* The first pass to raise ends getFullAnalysis.
getFullAnalysisResult(t, clock) ==
    IF TalksRaise(t) \/ TimesRaise(t) \/ ParticipantsRaise(t)
    THEN TypeError ELSE getFullAnalysis(t, clock)

----------------------------------------------------------------------------
\* The records of the inputs.

Talk0 ==
    [sessionID |-> Undefined, code |-> Undefined, id |-> Undefined, title |-> Undefined,
     abstract |-> Undefined, type |-> Undefined, language |-> Undefined,
     length |-> None, participants |-> None, times |-> None]

Person0 ==
    [speakerId |-> Undefined, fullName |-> Undefined, globalFullName |-> Undefined,
     companyName |-> Undefined, globalCompany |-> Undefined,
     jobTitle |-> Undefined, globalJobtitle |-> Undefined]

Time0 ==
    [date |-> Undefined, startTimeFormatted |-> Undefined, startTime |-> Undefined,
     room |-> Undefined, capacity |-> Undefined]

\* Records that differ in their identity fields, type, language and length.
BasicTalks ==
    {[Talk0 EXCEPT !.code = "A1", !.title = "T1", !.type = "Keynote",
                   !.language = "English", !.length = Some(45)],
     [Talk0 EXCEPT !.code = "A1", !.id = "S2", !.title = "T2", !.type = "Lab",
                   !.length = Some(30)],
     [Talk0 EXCEPT !.code = "", !.id = "S1", !.title = "T1", !.type = "Lab"],
     [Talk0 EXCEPT !.code = "", !.id = "S2", !.title = "T1", !.language = "French"],
     [Talk0 EXCEPT !.id = "S1", !.title = "T2", !.type = "Keynote", !.length = Some(0)],
     [Talk0 EXCEPT !.title = "T1", !.type = ""],
     [Talk0 EXCEPT !.title = "T2", !.type = "Lab", !.language = "English"],
     Talk0,
     [Talk0 EXCEPT !.code = "", !.id = "", !.title = "", !.type = "Keynote"],
     [Talk0 EXCEPT !.code = "S1", !.title = "T1", !.type = "Keynote", !.length = Some(20)]}

SlotA == [Time0 EXCEPT !.date = "2025-10-06", !.startTimeFormatted = "9:00 AM",
                       !.startTime = "09:00", !.room = "Hall A", !.capacity = "100"]
SlotB == [Time0 EXCEPT !.date = "2025-10-06", !.startTimeFormatted = "9:00 AM"]
SlotC == [Time0 EXCEPT !.date = "2025-10-07", !.startTime = "10:00",
                       !.room = "Hall B", !.capacity = "50"]
SlotD == [Time0 EXCEPT !.date = "2025-10-06", !.startTimeFormatted = "10:00",
                       !.room = "Hall A", !.capacity = "12 seats"]

\* Records that differ in their code and their time slots.
ScheduleTalks ==
    {[Talk0 EXCEPT !.code = "A1", !.times = Some(<<SlotA>>)],
     [Talk0 EXCEPT !.code = "A1"],
     [Talk0 EXCEPT !.code = "B2", !.times = Some(<<SlotB>>)],
     [Talk0 EXCEPT !.code = "B2", !.times = Some(<<SlotA, SlotC>>)],
     [Talk0 EXCEPT !.code = "C3", !.times = Some(<<>>)],
     [Talk0 EXCEPT !.code = "C3", !.times = Some(<<SlotC, SlotD>>)],
     [Talk0 EXCEPT !.code = "D4", !.times = Some(<<SlotD>>)]}

Ann == [Person0 EXCEPT !.speakerId = "sp1", !.fullName = "Ann", !.companyName = "IBM",
                       !.jobTitle = "CTO"]
AnnB == [Person0 EXCEPT !.speakerId = "sp1", !.fullName = "Ann B.",
                        !.globalCompany = "Red Hat"]
Bob == [Person0 EXCEPT !.speakerId = "7", !.fullName = "Bob", !.companyName = "IBM"]
Cy == [Person0 EXCEPT !.speakerId = "12", !.fullName = "Cy", !.companyName = "2025"]
Dee == [Person0 EXCEPT !.fullName = "Dee", !.companyName = "Red Hat"]
Eve == [Person0 EXCEPT !.globalFullName = "Eve"]

\* Records that differ in their participants.
SpeakerTalks ==
    {[Talk0 EXCEPT !.code = "A1", !.title = "T1", !.type = "Keynote",
                   !.participants = Some(<<Ann>>)],
     [Talk0 EXCEPT !.code = "A1", !.title = "T1", !.participants = Some(<<Ann, Cy>>)],
     [Talk0 EXCEPT !.code = "B2", !.title = "T2", !.participants = Some(<<Cy, Bob>>)],
     [Talk0 EXCEPT !.code = "C3", !.title = "T1", !.participants = Some(<<AnnB, Eve>>)],
     [Talk0 EXCEPT !.code = "C3", !.participants = Some(<<>>)],
     [Talk0 EXCEPT !.code = "D4", !.title = "T2", !.participants = Some(<<Dee, Person0>>)],
     [Talk0 EXCEPT !.code = "E5", !.title = "T2", !.type = "Lab"],
     [Talk0 EXCEPT !.code = "E5", !.title = "T2", !.type = "Lab",
                   !.participants = Some(<<Bob>>)]}

\* Records that carry something for every pass.
MixedTalks ==
    {[Talk0 EXCEPT !.code = "A1", !.title = "AI Lab", !.abstract = "<p>AI &amp; ML</p>",
                   !.type = "Keynote", !.length = Some(45),
                   !.participants = Some(<<Ann>>), !.times = Some(<<SlotA>>)],
     [Talk0 EXCEPT !.code = "A1", !.title = "Cloud", !.type = "Lab",
                   !.language = "English", !.participants = Some(<<Bob, Ann>>)],
     [Talk0 EXCEPT !.id = "S1", !.title = "Data 101", !.abstract = "the",
                   !.length = Some(30), !.participants = Some(<<Cy>>),
                   !.times = Some(<<SlotB, SlotC>>)]}

\* Records whose participants are known by a global name only.
Fay == [Person0 EXCEPT !.globalFullName = "Fay", !.globalCompany = "IBM"]
GlobalNameTalks ==
    {[Talk0 EXCEPT !.code = "A1", !.title = "T1", !.participants = Some(<<Eve>>)],
     [Talk0 EXCEPT !.code = "B2", !.title = "T2", !.participants = Some(<<Fay>>)],
     [Talk0 EXCEPT !.code = "C3", !.title = "T1", !.participants = Some(<<Eve, Fay>>)],
     [Talk0 EXCEPT !.code = "D4", !.title = "T2", !.participants = Some(<<Dee, Person0>>)],
     [Talk0 EXCEPT !.code = "E5", !.title = "T1", !.participants = Some(<<Ann>>)]}

\* Time slots whose date and start time hold the separator of line 80.
SlotE == [Time0 EXCEPT !.date = "Oct_6", !.startTimeFormatted = "9:00", !.room = ""]
SlotF == [Time0 EXCEPT !.date = "Oct", !.startTimeFormatted = "6_9:00",
                       !.room = "Hall B", !.capacity = "50"]

\* Time slots whose capacity is no number, and a negative one.
SlotG == [Time0 EXCEPT !.date = "2025-10-07", !.startTimeFormatted = "10:00",
                       !.room = "Hall A", !.capacity = "abc"]
SlotH == [Time0 EXCEPT !.date = "2025-10-07", !.startTimeFormatted = "10:00",
                       !.room = "Hall C", !.capacity = "-5"]

\* Records that differ in the dates, start times, rooms and capacities of
\* their slots.
SlotTalks ==
    {[Talk0 EXCEPT !.code = "F6", !.times = Some(<<SlotG, SlotH>>)],
     [Talk0 EXCEPT !.code = "A1", !.times = Some(<<SlotA, SlotB>>)],
     [Talk0 EXCEPT !.code = "B2", !.times = Some(<<SlotC>>)],
     [Talk0 EXCEPT !.code = "C3", !.times = Some(<<SlotE>>)],
     [Talk0 EXCEPT !.code = "D4", !.times = Some(<<SlotF, SlotD>>)],
     [Talk0 EXCEPT !.code = "A1", !.times = Some(<<SlotB>>)],
     [Talk0 EXCEPT !.code = "E5"]}

\* Records of a snapshot that parses: a well-formed one, null, and records
\* with a null entry among their participants or their time slots.
ShapeTalks ==
    {[Talk0 EXCEPT !.code = "A1", !.title = "T1", !.type = "Lab",
                   !.participants = Some(<<Ann>>), !.times = Some(<<SlotA>>)],
     Null,
     [Talk0 EXCEPT !.code = "B2", !.participants = Some(<<Null>>)],
     [Talk0 EXCEPT !.code = "C3", !.times = Some(<<Null>>)]}

\* Records that differ in where their identity comes from.
ServerTalks ==
    {[Talk0 EXCEPT !.sessionID = "S1", !.code = "A1", !.title = "T1"],
     [Talk0 EXCEPT !.code = "", !.id = "S1", !.title = "T1"],
     [Talk0 EXCEPT !.id = "S2", !.title = "T2"],
     [Talk0 EXCEPT !.title = "T1"],
     [Talk0 EXCEPT !.sessionID = "S2", !.code = "B2", !.title = "T2"]}

\* The :id parameters of the requests.
TalkIds == {"A1", "B2", "S1", "S2", "T1", "T2", "X9"}

\* Records that differ in what the filters of the talk listing read.
ListedTalks ==
    {[Talk0 EXCEPT !.code = "A1", !.title = "AI Lab", !.abstract = "<p>AI &amp; ML</p>",
                   !.type = "Keynote", !.participants = Some(<<Ann>>),
                   !.times = Some(<<SlotA>>)],
     [Talk0 EXCEPT !.code = "B2", !.title = "Cloud", !.type = "Lab",
                   !.participants = Some(<<Bob, Eve>>), !.times = Some(<<SlotC>>)],
     [Talk0 EXCEPT !.id = "S1", !.abstract = "AI Lab", !.type = "Lab",
                   !.participants = Some(<<Dee>>), !.times = Some(<<SlotC, SlotD>>)],
     Talk0}

\* The query strings of the talk listing; a parameter is absent or a string.
TalksQueries ==
    {[search |-> s, type |-> t, date |-> d, speaker |-> sp, page |-> pl[1], limit |-> pl[2]] :
        s \in {Undefined, "", "ai", "LAB"},
        t \in {Undefined, "all", "Lab"},
        d \in {Undefined, "all", "2025-10-06"},
        sp \in {Undefined, "all", "ANN", "e"},
        pl \in {<<Undefined, Undefined>>, <<"2", "1">>}}

\* The sequences over S of length at most n.
SeqsUpTo(S, n) == UNION {[1..k -> S] : k \in 0..n}

\* The documents whose sectionList is absent, empty, or holds a section whose
\* items are absent or one of values; and whose top-level items are absent or
\* one of values.
ShapeDocs(values) ==
    {[sectionList |-> sl, items |-> it] :
        sl \in {None, Some(<<>>), Some(<<[items |-> None]>>)}
               \cup {Some(<<[items |-> Some(v)]>>) : v \in values},
        it \in {None} \cup {Some(v) : v \in values}}

----------------------------------------------------------------------------
\* The state after the constructor (lines 5-8), for a document of one of the
\* given shapes whose record list is drawn from lists.

\* The snapshot file: absent, not JSON, or the text of a document.
FileMissing == [exists |-> FALSE]
FileUnparsable == [exists |-> TRUE, json |-> FALSE]
FileOf(doc) == [exists |-> TRUE, json |-> TRUE, doc |-> doc]

\* The engine used without the server, and before any call of cleanText.
NoServer == [pc |-> "off", error |-> None, exitCode |-> None, response |-> None]
NoText == [input |-> None, output |-> None, display |-> None]

\* The fetch script not run, and no dashboard open.
NoFetcher == [pc |-> "off"]
NoDashboard == [pc |-> "off"]

NoResults ==
    [basicStats |-> None, schedule |-> None, speakers |-> None, topics |-> None,
     rooms |-> None, full |-> None, prevFull |-> None]

Constructed(lists, shapes) ==
    /\ \E list \in lists : \E shape \in shapes :
          data = IF shape = "sectionList" THEN SectionDoc(list) ELSE ItemsDoc(list)
    /\ talks = extractTalks(data)
    /\ loaded = talks
    /\ results = NoResults
    /\ now = 0
    /\ file = FileOf(data)
    /\ server = NoServer
    /\ text = NoText
    /\ fetcher = NoFetcher
    /\ dashboard = NoDashboard

InitBasic == Constructed(SeqsUpTo(BasicTalks, MaxTalks), {"sectionList", "items"})
InitSchedule == Constructed(SeqsUpTo(ScheduleTalks, MaxTalks), {"sectionList", "items"})
InitSpeakers == Constructed(SeqsUpTo(SpeakerTalks, MaxTalks), {"sectionList", "items"})

InitGlobalNames == Constructed(SeqsUpTo(GlobalNameTalks, MaxTalks), {"sectionList"})
InitSlots == Constructed(SeqsUpTo(SlotTalks, MaxTalks), {"sectionList"})

\* The characters of the texts given to cleanText, and those texts: absent,
\* short ones over the characters, and two abstracts.
TextChars == {"<", ">", "&", ";", " ", "\n", "a"}
Texts ==
    {None} \cup {Some(cs) : cs \in SeqsUpTo(TextChars, MaxTextLen)}
           \cup {Some(CharsOf("<p>AI &amp; ML</p>")),
                 Some(CharsOf("  <b>Edge</b> &lt;io&gt; "))}

\* An engine over an empty snapshot, and a text to clean.
InitText ==
    /\ data = SectionDoc(<<>>)
    /\ talks = extractTalks(data)
    /\ loaded = talks
    /\ results = NoResults
    /\ now = 0
    /\ file = FileOf(data)
    /\ server = NoServer
    /\ \E arg \in Texts : text = [NoText EXCEPT !.input = Some(arg)]
    /\ fetcher = NoFetcher
    /\ dashboard = NoDashboard

\* The state after the constructor for a document of any shape.
InitShapes ==
    /\ data \in ShapeDocs(SeqsUpTo(ShapeTalks, MaxShapeTalks) \cup {NotArray})
    /\ talks = extractTalks(data)
    /\ loaded = talks
    /\ results = NoResults
    /\ now = 0
    /\ file = FileOf(data)
    /\ server = NoServer
    /\ text = NoText
    /\ fetcher = NoFetcher
    /\ dashboard = NoDashboard

\* The snapshot the fetch script writes has the sectionList shape.
Init == Constructed(SeqsUpTo(MixedTalks, MaxMixedTalks), {"sectionList"})

----------------------------------------------------------------------------
\* The operations.  A pass reads this.talks and returns a fresh value.

\* A mutation of getBasicStats: the deduplicated records replace this.talks.
getBasicStatsCallKeepsUnique ==
    /\ results' = [results EXCEPT !.basicStats = Some(getBasicStats(talks))]
    /\ talks' = MapValues(UniqueTalks(talks, <<>>))
    /\ UNCHANGED <<data, loaded, now, file, server, text, fetcher, dashboard>>

getBasicStatsCall ==
    /\ results' = [results EXCEPT !.basicStats = Some(getBasicStatsResult(talks))]
    /\ UNCHANGED <<data, talks, loaded, now, file, server, text, fetcher, dashboard>>

getScheduleAnalysisCall ==
    /\ results' = [results EXCEPT !.schedule = Some(getScheduleAnalysisResult(talks))]
    /\ UNCHANGED <<data, talks, loaded, now, file, server, text, fetcher, dashboard>>

getSpeakerAnalysisCall ==
    /\ results' = [results EXCEPT !.speakers = Some(getSpeakerAnalysisResult(talks))]
    /\ UNCHANGED <<data, talks, loaded, now, file, server, text, fetcher, dashboard>>

getTopicAnalysisCall ==
    /\ results' = [results EXCEPT !.topics = Some(getTopicAnalysisResult(talks))]
    /\ UNCHANGED <<data, talks, loaded, now, file, server, text, fetcher, dashboard>>

getRoomAnalysisCall ==
    /\ results' = [results EXCEPT !.rooms = Some(getRoomAnalysisResult(talks))]
    /\ UNCHANGED <<data, talks, loaded, now, file, server, text, fetcher, dashboard>>

\* A mutation of getFullAnalysis: the records without time slots are dropped
\* from this.talks once the report is composed.
getFullAnalysisCallDropsUnscheduled ==
    /\ results' = [results EXCEPT !.prevFull = results.full,
                                  !.full = Some(getFullAnalysis(talks, now))]
    /\ talks' = SelectSeq(talks, LAMBDA talk : NonEmptyList(talk.times))
    /\ UNCHANGED <<data, loaded, now, file, server, text, fetcher, dashboard>>

getFullAnalysisCall ==
    /\ results' = [results EXCEPT !.prevFull = results.full,
                                  !.full = Some(getFullAnalysisResult(talks, now))]
    /\ UNCHANGED <<data, talks, loaded, now, file, server, text, fetcher, dashboard>>

\* Time passes.
Tick ==
    /\ now < MaxClock
    /\ now' = now + 1
    /\ UNCHANGED <<data, talks, loaded, results, file, server, text, fetcher, dashboard>>

Next ==
    \/ getBasicStatsCall
    \/ getScheduleAnalysisCall
    \/ getSpeakerAnalysisCall
    \/ getTopicAnalysisCall
    \/ getRoomAnalysisCall
    \/ getFullAnalysisCall
    \/ Tick

Spec == Init /\ [][Next]_vars

NextBasic == getBasicStatsCall
SpecBasic == InitBasic /\ [][NextBasic]_vars

NextSchedule == getBasicStatsCall \/ getScheduleAnalysisCall
SpecSchedule == InitSchedule /\ [][NextSchedule]_vars

NextSpeakers == getSpeakerAnalysisCall
SpecSpeakers == InitSpeakers /\ [][NextSpeakers]_vars

\* EventAnalyzer.cleanText (lines 26-29) called on the text.
cleanTextCall ==
    /\ IsSome(text.input)
    /\ text' = [text EXCEPT !.output = Some(cleanTextOf(Get(text.input)))]
    /\ UNCHANGED <<data, talks, loaded, results, now, file, server, fetcher, dashboard>>

\* EventAnalyticsDashboard.cleanText (app.js lines 635-638), the same two
\* replacements and trim, called on the text.
dashboardCleanTextCall ==
    /\ IsSome(text.input)
    /\ text' = [text EXCEPT !.display = Some(cleanTextOf(Get(text.input)))]
    /\ UNCHANGED <<data, talks, loaded, results, now, file, server, fetcher, dashboard>>

NextText == cleanTextCall \/ dashboardCleanTextCall
SpecText == InitText /\ [][NextText]_vars

NextGlobalNames == getSpeakerAnalysisCall
SpecGlobalNames == InitGlobalNames /\ [][NextGlobalNames]_vars

NextSlots == getScheduleAnalysisCall \/ getRoomAnalysisCall
SpecSlots == InitSlots /\ [][NextSlots]_vars

----------------------------------------------------------------------------
\* The server (server.js).

\* A mutation of the constructor: a snapshot that cannot be read gives an
\* engine without records instead of an exception.
ConstructSwallows(f) ==
    IF f.exists /\ f.json /\ f.doc # Null
    THEN [data |-> f.doc, talks |-> extractTalks(f.doc)]
    ELSE [data |-> ItemsDoc(<<>>), talks |-> <<>>]

\* new EventAnalyzer(dataPath) (part_001 lines 5-8): the engine, or the
\* exception of readFileSync, of JSON.parse, or of extractTalks reading
\* this.data.sectionList when the document is null.
Construct(f) ==
    IF ~f.exists THEN [threw |-> "ENOENT"]
    ELSE IF ~f.json THEN [threw |-> "SyntaxError"]
    ELSE IF f.doc = Null THEN TypeError
    ELSE [data |-> f.doc, talks |-> extractTalks(f.doc)]

Raised(outcome) == "threw" \in DOMAIN outcome

\* The process before line 38.
Starting == [pc |-> "starting", error |-> None, exitCode |-> None, response |-> None]

\* Lines 38-46: the engine is built; an exception is caught, logged, and
\* ends the process with exit code 1.
ServerLoad ==
    /\ server.pc = "starting"
    /\ LET outcome == Construct(file)
       IN IF Raised(outcome)
          THEN /\ server' = [server EXCEPT !.pc = "exited", !.error = Some(outcome),
                                           !.exitCode = Some(1)]
               /\ UNCHANGED <<data, talks, loaded>>
          ELSE /\ server' = [server EXCEPT !.pc = "loaded"]
               /\ data' = outcome.data
               /\ talks' = outcome.talks
               /\ loaded' = outcome.talks
    /\ UNCHANGED <<results, now, file, text, fetcher, dashboard>>

\* Lines 175-178: app.listen, reached when the process has not exited.
ServerListen ==
    /\ server.pc = "loaded"
    /\ server' = [server EXCEPT !.pc = "listening"]
    /\ UNCHANGED <<data, talks, loaded, results, now, file, text, fetcher, dashboard>>

\* res.json(...) has written the response: the client has it, and the server
\* takes the next request.  A handler runs to its end before the next starts.
Deliver ==
    /\ IsSome(server.response)
    /\ server' = [server EXCEPT !.response = None]
    /\ UNCHANGED <<data, talks, loaded, results, now, file, text, fetcher, dashboard>>

\* analyzer.talks.find(t => t.sessionID === id || t.code === id) (line 118):
\* the index of the first match, 0 when there is none, -1 when the search
\* raises (talks that are no array, or a null record before any match).
FindTalk(t, id) ==
    IF ~IsArray(t) THEN -1
    ELSE LET stops == {i \in 1..Len(t) :
                          t[i] = Null \/ t[i].sessionID = id \/ t[i].code = id}
         IN IF stops = {} THEN 0
            ELSE LET first == CHOOSE i \in stops : \A j \in stops : i <= j
                 IN IF t[first] = Null THEN -1 ELSE first

\* GET /api/talk/:id (lines 115-129)
TalkResponse(t, id) ==
    LET found == FindTalk(t, id)
    IN CASE found = -1 ->
              [route |-> "talk", id |-> id, status |-> 500, success |-> FALSE,
               error |-> "Failed to fetch talk details"]
         [] found = 0 ->
              [route |-> "talk", id |-> id, status |-> 404, success |-> FALSE,
               error |-> "Talk not found"]
         [] OTHER ->
              [route |-> "talk", id |-> id, status |-> 200, success |-> TRUE,
               data |-> t[found]]

GetTalk ==
    /\ server.pc = "listening"
    /\ server.response = None
    /\ \E id \in TalkIds :
          server' = [server EXCEPT !.response = Some(TalkResponse(talks, id))]
    /\ UNCHANGED <<data, talks, loaded, results, now, file, text, fetcher, dashboard>>

\* haystack.toLowerCase().includes(needle.toLowerCase())
IncludesLower(haystack, needle) ==
    Includes(LowerCase(CharsOf(haystack)), LowerCase(CharsOf(needle)))

\* A mutation of the date filter: only the first time slot of a talk is read.
DateFilterFirstSlot(talk, date) ==
    NonEmptyList(talk.times) /\ Get(talk.times)[1].date = date

\* The predicates of the four filters (lines 68-69, 74, 79, 85-86).
SearchFilter(talk, search) ==
    \/ Truthy(talk.title) /\ IncludesLower(talk.title, search)
    \/ Truthy(talk.abstract) /\ IncludesLower(talk.abstract, search)

TypeFilter(talk, type) == talk.type = type

DateFilter(talk, date) ==
    IsSome(talk.times) /\ \E j \in 1..Len(Get(talk.times)) : Get(talk.times)[j].date = date

SpeakerFilter(talk, speaker) ==
    IsSome(talk.participants) /\ \E j \in 1..Len(Get(talk.participants)) :
        LET p == Get(talk.participants)[j]
        IN \/ Truthy(p.fullName) /\ IncludesLower(p.fullName, speaker)
           \/ Truthy(p.globalFullName) /\ IncludesLower(p.globalFullName, speaker)

\* Lines 65-89: each filter that is supplied narrows the list in turn.
FilterTalks(t, q) ==
    LET bySearch == IF Truthy(q.search)
                    THEN SelectSeq(t, LAMBDA talk : SearchFilter(talk, q.search)) ELSE t
        byType == IF Truthy(q.type) /\ q.type # "all"
                  THEN SelectSeq(bySearch, LAMBDA talk : TypeFilter(talk, q.type))
                  ELSE bySearch
        byDate == IF Truthy(q.date) /\ q.date # "all"
                  THEN SelectSeq(byType, LAMBDA talk : DateFilter(talk, q.date))
                  ELSE byType
    IN IF Truthy(q.speaker) /\ q.speaker # "all"
       THEN SelectSeq(byDate, LAMBDA talk : SpeakerFilter(talk, q.speaker))
       ELSE byDate

\* parseInt(value) || dflt (lines 92-93)
ParseIntOr(value, dflt) ==
    IF ParseIntOr0(value) = 0 THEN dflt ELSE ParseIntOr0(value)

\* The index slice() reads for k: a negative k counts from the end, and the
\* result is kept within 0..len.
SliceIndex(k, len) ==
    IF k < 0 THEN (IF len + k < 0 THEN 0 ELSE len + k)
    ELSE IF k > len THEN len ELSE k

\* talks.slice(startIndex, endIndex)
Slice(t, startIndex, endIndex) ==
    SubSeq(t, SliceIndex(startIndex, Len(t)) + 1, SliceIndex(endIndex, Len(t)))

\* Math.ceil(n / d) for n >= 0 and d # 0; for d < 0 the quotient is negative
\* or zero, and its ceiling is minus the floor of n / -d.
MathCeil(n, d) ==
    IF d > 0 THEN (n + d - 1) \div d ELSE 0 - (n \div (0 - d))

\* GET /api/talks (lines 59-113).  A filter that reads a property of a null
\* record, and filter or slice on talks that are no array, raise.
TalksResponse(t, q) ==
    IF \/ ~IsArray(t)
       \/ /\ \E i \in 1..Len(t) : t[i] = Null
          /\ \/ Truthy(q.search)
             \/ \E v \in {q.type, q.date, q.speaker} : Truthy(v) /\ v # "all"
    THEN [route |-> "talks", query |-> q, status |-> 500, success |-> FALSE,
          error |-> "Failed to fetch talks"]
    ELSE LET filtered == FilterTalks(t, q)
             page == ParseIntOr(q.page, 1)
             limit == ParseIntOr(q.limit, 20)
         IN [route |-> "talks", query |-> q, status |-> 200, success |-> TRUE,
             data |-> [talks |-> Slice(filtered, (page - 1) * limit, page * limit),
                       totalTalks |-> Len(filtered),
                       totalPages |-> MathCeil(Len(filtered), limit),
                       currentPage |-> page]]

GetTalks ==
    /\ server.pc = "listening"
    /\ server.response = None
    /\ \E q \in TalksQueries :
          server' = [server EXCEPT !.response = Some(TalksResponse(talks, q))]
    /\ UNCHANGED <<data, talks, loaded, results, now, file, text, fetcher, dashboard>>

\* The query strings that differ in page and limit: absent, zero, no number,
\* positive and negative.
PagingQueries ==
    {[search |-> s, type |-> Undefined, date |-> Undefined, speaker |-> Undefined,
      page |-> p, limit |-> l] :
        s \in {Undefined, "ai"},
        p \in {Undefined, "0", "abc", "1", "2", "3", "-1"},
        l \in {Undefined, "0", "abc", "1", "2", "-1"}}

\* GET /api/talks (lines 59-113) with a query of PagingQueries.
GetTalksPaged ==
    /\ server.pc = "listening"
    /\ server.response = None
    /\ \E q \in PagingQueries :
          server' = [server EXCEPT !.response = Some(TalksResponse(talks, q))]
    /\ UNCHANGED <<data, talks, loaded, results, now, file, text, fetcher, dashboard>>

\* The server process starts with the snapshot file as it is on disk.
InitServer ==
    /\ file \in {FileMissing, FileUnparsable, FileOf(Null)}
               \cup {FileOf(SectionDoc(list)) : list \in SeqsUpTo(ServerTalks, MaxServerTalks)}
    /\ data = Null
    /\ talks = <<>>
    /\ loaded = <<>>
    /\ results = NoResults
    /\ now = 0
    /\ server = Starting
    /\ text = NoText
    /\ fetcher = NoFetcher
    /\ dashboard = NoDashboard

\* The server process over a snapshot of records to list.
InitListing ==
    /\ file \in {FileOf(SectionDoc(list)) : list \in SeqsUpTo(ListedTalks, MaxListedTalks)}
    /\ data = Null
    /\ talks = <<>>
    /\ loaded = <<>>
    /\ results = NoResults
    /\ now = 0
    /\ server = Starting
    /\ text = NoText
    /\ fetcher = NoFetcher
    /\ dashboard = NoDashboard

\* The server process over a snapshot of records to page through.
InitPaging ==
    /\ file \in {FileOf(SectionDoc(list)) : list \in SeqsUpTo(ListedTalks, MaxPagedTalks)}
    /\ data = Null
    /\ talks = <<>>
    /\ loaded = <<>>
    /\ results = NoResults
    /\ now = 0
    /\ server = Starting
    /\ text = NoText
    /\ fetcher = NoFetcher
    /\ dashboard = NoDashboard

NextPaging == ServerLoad \/ ServerListen \/ GetTalksPaged \/ Deliver
SpecPaging == InitPaging /\ [][NextPaging]_vars

NextListing == ServerLoad \/ ServerListen \/ GetTalks \/ Deliver
SpecListing == InitListing /\ [][NextListing]_vars

NextServer == ServerLoad \/ ServerListen \/ GetTalk \/ Deliver
SpecServer == InitServer /\ [][NextServer]_vars

NextShapes ==
    \/ getBasicStatsCall
    \/ getScheduleAnalysisCall
    \/ getSpeakerAnalysisCall
    \/ getTopicAnalysisCall
    \/ getRoomAnalysisCall
    \/ getFullAnalysisCall
SpecShapes == InitShapes /\ [][NextShapes]_vars

----------------------------------------------------------------------------
\* The fetch script (part_000 lines 13-102; part_002 is the same main() with
\* a cookie header).  main() runs from one await to the next.

\* const pageSize = 50 (line 54), and the 500 ms of the setTimeout (line 80).
pageSize == 50
delay == 500

\* Records of the catalogue.
ItemA == [Talk0 EXCEPT !.code = "P1"]
ItemB == [Talk0 EXCEPT !.code = "P2"]
ItemC == [Talk0 EXCEPT !.code = "P3"]

\* What fetchPage (lines 13-36) settles to, besides a page: fetch rejects, or
\* response.json() finds no JSON.
FetchRejected == [threw |-> "FetchError"]
JsonRejected == [threw |-> "SyntaxError"]

\* totalSearchItems of the first page: absent, or a number around a multiple
\* of the page size.
Totals ==
    {None} \cup {Some(pageSize * p + d) : p \in 0..(MaxPages - 1), d \in {-1, 0, 1}}

\* The pages the API answers offset 0 with: sectionList absent, empty, a
\* section without items, or a section with items; items at the root or not.
FirstPages ==
    {[totalSearchItems |-> T, sectionList |-> sl, items |-> it] :
        T \in Totals,
        sl \in {None, Some(<<>>), Some(<<[items |-> None]>>),
                Some(<<[items |-> Some(<<ItemA>>)]>>),
                Some(<<[items |-> Some(<<ItemA, ItemB>>)]>>)},
        it \in {None, Some(<<ItemC>>)}}

\* The pages the API answers a later offset with: items at the root (an
\* array, empty or not, or no array), in a section, both or neither.
LaterPages ==
    {[totalSearchItems |-> None, sectionList |-> sl, items |-> it] :
        sl \in {None, Some(<<[items |-> Some(<<ItemC>>)]>>)},
        it \in {None, Some(<<>>), Some(<<ItemB>>), Some(<<ItemB, ItemA>>), Some(NotArray)}}

\* firstPage.totalSearchItems || 0 (line 44)
TotalItemsOf(page) ==
    IF IsSome(page.totalSearchItems) /\ Get(page.totalSearchItems) # 0
    THEN Get(page.totalSearchItems)
    ELSE 0

\* page.sectionList && page.sectionList[0] && page.sectionList[0].items
\* (lines 49 and 69)
HasSectionItems(page) ==
    /\ IsSome(page.sectionList)
    /\ Len(Get(page.sectionList)) > 0
    /\ IsSome(Get(page.sectionList)[1].items)

\* Lines 48-51: allItems after the first page.
FirstItems(page) ==
    IF HasSectionItems(page) THEN Get(Get(page.sectionList)[1].items) ELSE <<>>

\* Lines 62-71: pageItems of a later page.
PageItems(page) ==
    IF IsSome(page.items) /\ IsArray(Get(page.items)) THEN Get(page.items)
    ELSE IF HasSectionItems(page) THEN Get(Get(page.sectionList)[1].items)
    ELSE <<>>

\* A mutation of lines 73-75: a page's items go in front.
ConcatItemsInFront(allItems, pageItems) ==
    IF Len(pageItems) > 0 THEN pageItems \o allItems ELSE allItems

\* Lines 73-75
ConcatItems(allItems, pageItems) ==
    IF Len(pageItems) > 0 THEN allItems \o pageItems ELSE allItems

\* A mutation of line 77: the offset advances by two pages.
NextFromSkips(from) == from + 2 * pageSize

\* from += pageSize (line 77)
NextFrom(from) == from + pageSize

\* A mutation of lines 84-92: the write does not wait for a sectionList.
CompleteDataAlways(firstPage, allItems) ==
    [firstPage EXCEPT !.sectionList = Some(<<[items |-> Some(allItems)]>>)]

\* Lines 84-92: completeData, or the TypeError of firstPage.sectionList[0]
\* when the first page has no sectionList.
CompleteData(firstPage, allItems) ==
    IF firstPage.sectionList = None THEN TypeError
    ELSE [firstPage EXCEPT !.sectionList = Some(<<[items |-> Some(allItems)]>>)]

\* main() before its first line.
FetcherStart(f) ==
    [pc |-> "start", firstPage |-> None, totalItems |-> 0, allItems |-> <<>>,
     from |-> 0, waited |-> 0, inFlight |-> 0, requests |-> <<>>, pages |-> <<>>,
     writes |-> 0, error |-> None, original |-> f]

\* fetchPage(from) called: the request is in flight.  The history keeps its
\* offset, the time waited since the request before it was issued, and the
\* number of requests in flight and of pages received when it was issued.
Issue(f, offset) ==
    [f EXCEPT !.requests = Append(@, [from |-> offset, waited |-> f.waited,
                                      inFlight |-> f.inFlight,
                                      received |-> Len(f.pages)]),
              !.inFlight = @ + 1,
              !.waited = 0]

\* catch (error) (lines 97-99): logged, and main() ends.
Caught(f, error) ==
    [f EXCEPT !.pc = "failed", !.error = Some(error)]

\* Lines 39-43: the first page is requested.
FetchStart ==
    /\ fetcher.pc = "start"
    /\ fetcher' = [Issue(fetcher, 0) EXCEPT !.pc = "awaitFirst"]
    /\ UNCHANGED <<data, talks, loaded, results, now, file, server, text, dashboard>>

\* Lines 43-55: the first page arrives, or the request raises.
FirstResponse ==
    /\ fetcher.pc = "awaitFirst"
    /\ \E page \in FirstPages \cup {FetchRejected, JsonRejected} :
          LET f == [fetcher EXCEPT !.inFlight = @ - 1]
          IN fetcher' =
                IF Raised(page) THEN Caught(f, page)
                ELSE [f EXCEPT !.pc = "loop",
                               !.firstPage = Some(page),
                               !.totalItems = TotalItemsOf(page),
                               !.allItems = FirstItems(page),
                               !.from = pageSize,
                               !.pages = Append(@, page)]
    /\ UNCHANGED <<data, talks, loaded, results, now, file, server, text, dashboard>>

\* Lines 57-60: the loop test holds, and the next page is requested.
FetchNext ==
    /\ fetcher.pc = "loop"
    /\ fetcher.from < fetcher.totalItems
    /\ fetcher' = [Issue(fetcher, fetcher.from) EXCEPT !.pc = "awaitPage"]
    /\ UNCHANGED <<data, talks, loaded, results, now, file, server, text, dashboard>>

\* Lines 60-80: a later page arrives, or the request raises; the timer of
\* line 80 is set.
PageResponse ==
    /\ fetcher.pc = "awaitPage"
    /\ \E page \in LaterPages \cup {FetchRejected, JsonRejected} :
          LET f == [fetcher EXCEPT !.inFlight = @ - 1]
          IN fetcher' =
                IF Raised(page) THEN Caught(f, page)
                ELSE [f EXCEPT !.pc = "delay",
                               !.allItems = ConcatItems(@, PageItems(page)),
                               !.from = NextFrom(@),
                               !.pages = Append(@, page)]
    /\ UNCHANGED <<data, talks, loaded, results, now, file, server, text, dashboard>>

\* Line 80: the timer fires after 500 ms, and the loop test is next.
DelayElapsed ==
    /\ fetcher.pc = "delay"
    /\ fetcher' = [fetcher EXCEPT !.pc = "loop", !.waited = @ + delay]
    /\ UNCHANGED <<data, talks, loaded, results, now, file, server, text, dashboard>>

\* Lines 84-96: the loop test fails; completeData is built and written to
\* output.json, or building it raises and nothing is written.
WriteSnapshot ==
    /\ fetcher.pc = "loop"
    /\ ~(fetcher.from < fetcher.totalItems)
    /\ LET completeData == CompleteData(Get(fetcher.firstPage), fetcher.allItems)
       IN IF Raised(completeData)
          THEN /\ fetcher' = Caught(fetcher, completeData)
               /\ UNCHANGED file
          ELSE /\ fetcher' = [fetcher EXCEPT !.pc = "done", !.writes = @ + 1]
               /\ file' = FileOf(completeData)
    /\ UNCHANGED <<data, talks, loaded, results, now, server, text, dashboard>>

\* The script is run where output.json is absent or holds an older snapshot;
\* the server is started at any moment.
InitFetch ==
    /\ file \in {FileMissing, FileOf(SectionDoc(<<ItemC>>))}
    /\ data = Null
    /\ talks = <<>>
    /\ loaded = <<>>
    /\ results = NoResults
    /\ now = 0
    /\ server = Starting
    /\ text = NoText
    /\ fetcher = FetcherStart(file)
    /\ dashboard = NoDashboard

NextMain ==
    \/ FetchStart
    \/ FirstResponse
    \/ FetchNext
    \/ PageResponse
    \/ DelayElapsed
    \/ WriteSnapshot

NextFetch == NextMain \/ ServerLoad
SpecFetch == InitFetch /\ [][NextFetch]_vars

\* The event loop runs a continuation that is ready, a timer fires, and a
\* request settles: main() takes its next step whenever it has one.
SpecFetchLive == SpecFetch /\ WF_vars(NextMain)

----------------------------------------------------------------------------
\* The dashboard's talk list (public/app.js): the search box, the type
\* filter, the pagination buttons, and loadTalks.

\* this.talksPerPage = 12 (line 689)
talksPerPage == 12

\* The text URLSearchParams gives a page number or the limit.
NumberText(n) ==
    CASE n = 1 -> "1" [] n = 2 -> "2" [] n = 3 -> "3" [] n = 4 -> "4" [] n = 12 -> "12"

\* The records the server lists: more than one page of them, a Lab among
\* Keynotes.
DashTalks ==
    [i \in 1..MaxDashTalks |->
        IF i = 2
        THEN [Talk0 EXCEPT !.code = "B2", !.title = "Cloud", !.type = "Lab"]
        ELSE [Talk0 EXCEPT !.code = "A1", !.title = "AI Lab", !.type = "Keynote"]]

\* What the user can type in the search box and select in the type filter.
SearchValues == {"", "ai"}
TypeValues == {"all", "Lab"}

\* The dashboard constructed (lines 685-691), before init() has run.
DashboardStart ==
    [pc |-> "init", currentPage |-> 1, search |-> "", type |-> "all",
     timer |-> FALSE, inFlight |-> {}, issued |-> 0, last |-> None,
     talksData |-> None]

\* loadTalks(filters) up to its fetch (lines 716-723): the request is in
\* flight.  The history keeps the number of the call and the latest request.
LoadTalks(d, search, type) ==
    LET request == [id |-> d.issued + 1,
                    query |-> [search |-> search, type |-> type,
                               date |-> Undefined, speaker |-> Undefined,
                               page |-> NumberText(d.currentPage),
                               limit |-> NumberText(talksPerPage)]]
    IN [d EXCEPT !.inFlight = @ \cup {request},
                 !.issued = @ + 1,
                 !.last = Some(request)]

\* The pages of the enabled buttons renderPagination (lines 1066-1107) has
\* drawn for talksData, as the click handler (lines 1336-1343) reads them.
PageButtons(talksData) ==
    IF talksData = None \/ Get(talksData).totalPages <= 1 THEN {}
    ELSE LET totalPages == Get(talksData).totalPages
             currentPage == Get(talksData).currentPage
             previous == IF currentPage = 1 THEN {} ELSE {currentPage - 1}
             next == IF currentPage = totalPages THEN {} ELSE {currentPage + 1}
             numbered == {i \in 1..totalPages : currentPage - 2 <= i /\ i <= currentPage + 2}
         IN {page \in previous \cup numbered \cup next : page > 0}

\* init() (lines 694-699): renderDashboard calls loadTalks() without
\* filters (line 739), and the listeners are set.
DashboardInit ==
    /\ dashboard.pc = "init"
    /\ dashboard' = [LoadTalks(dashboard, Undefined, Undefined) EXCEPT !.pc = "ready"]
    /\ UNCHANGED <<data, talks, loaded, results, now, file, server, text, fetcher>>

\* Lines 1254-1256: the user edits the search box; the timer is set anew.
SearchInput ==
    /\ dashboard.pc = "ready"
    /\ \E value \in SearchValues \ {dashboard.search} :
          dashboard' = [dashboard EXCEPT !.search = value, !.timer = TRUE]
    /\ UNCHANGED <<data, talks, loaded, results, now, file, server, text, fetcher>>

\* Lines 1256-1262: the timer fires 300 ms after the last edit.
SearchTimeout ==
    /\ dashboard.pc = "ready"
    /\ dashboard.timer
    /\ dashboard.issued < MaxRequests
    /\ dashboard' = LoadTalks([dashboard EXCEPT !.timer = FALSE, !.currentPage = 1],
                              dashboard.search, dashboard.type)
    /\ UNCHANGED <<data, talks, loaded, results, now, file, server, text, fetcher>>

\* Lines 1265-1271: the user selects another type.
TypeChange ==
    /\ dashboard.pc = "ready"
    /\ dashboard.issued < MaxRequests
    /\ \E value \in TypeValues \ {dashboard.type} :
          dashboard' = LoadTalks([dashboard EXCEPT !.type = value, !.currentPage = 1],
                                 dashboard.search, value)
    /\ UNCHANGED <<data, talks, loaded, results, now, file, server, text, fetcher>>

\* Lines 1336-1343 and changePage (lines 1450-1459): the user clicks an
\* enabled pagination button.
PageClick ==
    /\ dashboard.pc = "ready"
    /\ dashboard.issued < MaxRequests
    /\ \E page \in PageButtons(dashboard.talksData) :
          dashboard' = LoadTalks([dashboard EXCEPT !.currentPage = page],
                                 dashboard.search, dashboard.type)
    /\ UNCHANGED <<data, talks, loaded, results, now, file, server, text, fetcher>>

\* Lines 724-731: the response of a request has arrived.
Received(d, request, result) ==
    IF result.success
    THEN [d EXCEPT !.inFlight = @ \ {request}, !.talksData = Some(result.data)]
    ELSE [d EXCEPT !.inFlight = @ \ {request}]

\* Lines 723-731: the server has answered one of the requests in flight
\* (server.js lines 59-113), and loadTalks goes on with its answer.
TalksArrive ==
    /\ dashboard.pc = "ready"
    /\ \E request \in dashboard.inFlight :
          dashboard' = Received(dashboard, request, TalksResponse(talks, request.query))
    /\ UNCHANGED <<data, talks, loaded, results, now, file, server, text, fetcher>>

\* The dashboard opened on a listening server.
InitDashboard ==
    /\ data = SectionDoc(DashTalks)
    /\ talks = extractTalks(data)
    /\ loaded = talks
    /\ results = NoResults
    /\ now = 0
    /\ file = FileOf(data)
    /\ server = [Starting EXCEPT !.pc = "listening"]
    /\ text = NoText
    /\ fetcher = NoFetcher
    /\ dashboard = DashboardStart

NextDashboard ==
    \/ DashboardInit
    \/ SearchInput
    \/ SearchTimeout
    \/ TypeChange
    \/ PageClick
    \/ TalksArrive
SpecDashboard == InitDashboard /\ [][NextDashboard]_vars

----------------------------------------------------------------------------
\* What the claims speak of, stated over the loaded record list.

NonEmpty(v) == v \notin {Undefined, ""}

\* The first non-empty of code, id and title; the title as it is when none is.
FirstNonEmptyKey(talk) ==
    IF NonEmpty(talk.code) THEN talk.code
    ELSE IF NonEmpty(talk.id) THEN talk.id ELSE talk.title

\* The first defined of code, id and title.
FirstDefinedKey(talk) ==
    IF talk.code # Undefined THEN talk.code
    ELSE IF talk.id # Undefined THEN talk.id ELSE talk.title

Indices(t) == 1..Len(t)

\* The number of time slots of a record.
SlotCount(talk) == IF IsSome(talk.times) THEN Len(Get(talk.times)) ELSE 0

\* The number of participant entries of a record.
EntryCount(talk) == IF IsSome(talk.participants) THEN Len(Get(talk.participants)) ELSE 0

\* The time slots and the participant entries of the whole list.
TotalSlots(t) == SumSeq([i \in 1..Len(t) |-> SlotCount(t[i])])
TotalEntries(t) == SumSeq([i \in 1..Len(t) |-> EntryCount(t[i])])

----------------------------------------------------------------------------
\* C1 (as stated): totalTalks is the number of distinct identity keys of the
\* raw list, the key of a record being the first defined of its code, id and
\* title.
C1_TotalTalksCountsFirstDefinedKeys ==
    IsSome(results.basicStats) =>
        Get(results.basicStats).totalTalks =
            Cardinality({FirstDefinedKey(loaded[i]) : i \in Indices(loaded)})

\* C1 (amended): totalTalks is the number of distinct identity keys of the
\* raw list, the key of a record being the first non-empty of its code, id
\* and title (the title as it is when none is non-empty); records sharing a
\* key count once.
C1_TotalTalksCountsNonEmptyKeys ==
    IsSome(results.basicStats) =>
        Get(results.basicStats).totalTalks =
            Cardinality({FirstNonEmptyKey(loaded[i]) : i \in Indices(loaded)})

\* getBasicStats has returned for a list with two records sharing a key and
\* a record whose empty code gives way to its id.
C1_Witness ==
    /\ IsSome(results.basicStats)
    /\ \E i, j \in Indices(loaded) :
          i # j /\ FirstNonEmptyKey(loaded[i]) = FirstNonEmptyKey(loaded[j])
    /\ \E i \in Indices(loaded) : loaded[i].code = "" /\ NonEmpty(loaded[i].id)
    /\ Get(results.basicStats).totalTalks = Len(loaded) - 1

\* C2: after any sequence of passes and of getFullAnalysis the record list is
\* the one that was loaded, and every result is the one the pass gives on
\* that list, whatever was invoked before.
C2_PassesLeaveTalksAlone ==
    /\ talks = loaded
    /\ extractTalks(data) = loaded
    /\ IsSome(results.basicStats) => Get(results.basicStats) = getBasicStats(loaded)
    /\ IsSome(results.schedule) => Get(results.schedule) = getScheduleAnalysis(loaded)
    /\ IsSome(results.speakers) => Get(results.speakers) = getSpeakerAnalysis(loaded)
    /\ IsSome(results.topics) => Get(results.topics) = getTopicAnalysis(loaded)
    /\ IsSome(results.rooms) => Get(results.rooms) = getRoomAnalysis(loaded)
    /\ IsSome(results.full) =>
          Get(results.full) = getFullAnalysis(loaded, Get(results.full).lastUpdated)

\* Every pass and getFullAnalysis (twice) have been invoked on a list with a
\* repeated talk.
C2_Witness ==
    /\ Len(loaded) >= 2
    /\ \A f \in DOMAIN results : IsSome(results[f])
    /\ Get(results.basicStats).totalTalks < Len(loaded)

\* C3: two calls of getFullAnalysis on the same snapshot give results that
\* agree in every field but lastUpdated.
C3_FullAnalysisIdempotent ==
    (IsSome(results.prevFull) /\ IsSome(results.full)) =>
        [Get(results.full) EXCEPT !.lastUpdated = 0]
            = [Get(results.prevFull) EXCEPT !.lastUpdated = 0]

\* getFullAnalysis has been called twice, at different times, on a list with
\* a record that has no time slot.
C3_Witness ==
    /\ IsSome(results.prevFull) /\ IsSome(results.full)
    /\ Get(results.prevFull).lastUpdated < Get(results.full).lastUpdated
    /\ \E i \in Indices(loaded) : SlotCount(loaded[i]) = 0
    /\ Get(results.full).schedule.totalTimeSlots > 0

----------------------------------------------------------------------------
\* The number of time slots, over the whole list, whose date prints as d.
SlotsOnDay(t, d) ==
    SumSeq([i \in 1..Len(t) |->
        IF IsSome(t[i].times)
        THEN Cardinality({j \in 1..Len(Get(t[i].times)) : Get(t[i].times)[j].date = d})
        ELSE 0])

\* The value an accumulator holds for a key, 0 when it has none.
CountAt(obj, k) ==
    IF \E i \in 1..Len(obj) : obj[i][1] = k
    THEN (CHOOSE e \in {obj[i] : i \in 1..Len(obj)} : e[1] = k)[2]
    ELSE 0

\* C4: records sharing an identity key count once in totalTalks, while the
\* schedule counts every time slot of every raw record: byDay holds, for each
\* day, the number of time slots of that day over the raw list, and totals
\* the number of time slots of the raw list.
C4_DedupOnlyInBasicStats ==
    /\ IsSome(results.basicStats) =>
          Get(results.basicStats).totalTalks =
              Cardinality({FirstNonEmptyKey(loaded[i]) : i \in Indices(loaded)})
    /\ IsSome(results.schedule) =>
          LET byDay == Get(results.schedule).byDay
          IN /\ SumSeq([i \in 1..Len(byDay) |-> byDay[i][2]]) = TotalSlots(loaded)
             /\ \A i \in 1..Len(byDay) : byDay[i][2] = SlotsOnDay(loaded, byDay[i][1])
             /\ \A i, j \in 1..Len(byDay) : i # j => byDay[i][1] # byDay[j][1]

\* Both passes have run on two records sharing a code, one with a single time
\* slot and one without times: one talk, one occurrence.
C4_Witness ==
    /\ Len(loaded) = 2
    /\ loaded[1].code = loaded[2].code /\ NonEmpty(loaded[1].code)
    /\ {SlotCount(loaded[1]), SlotCount(loaded[2])} = {0, 1}
    /\ \E i \in 1..2 : loaded[i].times = None
    /\ IsSome(results.basicStats) /\ Get(results.basicStats).totalTalks = 1
    /\ IsSome(results.schedule)
    /\ Get(results.schedule).byDay = << <<"2025-10-06", 1>> >>

\* C5: the values of talkTypes sum to totalTalks.
C5_TalkTypesSumToTotal ==
    IsSome(results.basicStats) =>
        LET talkTypes == Get(results.basicStats).talkTypes
        IN SumSeq([i \in 1..Len(talkTypes) |-> talkTypes[i][2]])
               = Get(results.basicStats).totalTalks

\* getBasicStats has returned for a list with a repeated talk, a talk without
\* a type and talks of two other types.
C5_Witness ==
    /\ IsSome(results.basicStats)
    /\ Get(results.basicStats).totalTalks < Len(loaded)
    /\ CountAt(Get(results.basicStats).talkTypes, "Unknown") >= 1
    /\ Len(Get(results.basicStats).talkTypes) >= 2

\* C6: the talkCount values of the speakers output sum to the number of
\* participant entries of the raw list.
C6_TalkCountsSumToEntries ==
    IsSome(results.speakers) =>
        LET speakers == Get(results.speakers).speakers
        IN SumSeq([i \in 1..Len(speakers) |-> speakers[i].talkCount])
               = TotalEntries(loaded)

\* getSpeakerAnalysis has returned for a list in which a speaker appears on
\* two records that share their code, next to another speaker.
C6_Witness ==
    /\ IsSome(results.speakers)
    /\ Len(Get(results.speakers).speakers) >= 2
    /\ \E i \in 1..Len(Get(results.speakers).speakers) :
          LET sp == Get(results.speakers).speakers[i]
          IN sp.talkCount >= 2 /\ sp.talks[1].code = sp.talks[2].code

\* C7 (as stated): speakerTalkDistribution[k] is the number of speakers whose
\* final talkCount is exactly k, so that its values sum to totalSpeakers.
C7_DistributionIsFinalHistogram ==
    IsSome(results.speakers) =>
        LET r == Get(results.speakers)
        IN /\ \A k \in 1..(TotalEntries(loaded) + 1) :
                 CountAt(r.speakerTalkDistribution, k)
                     = Cardinality({i \in 1..Len(r.speakers) : r.speakers[i].talkCount = k})
           /\ SumSeq([i \in 1..Len(r.speakerTalkDistribution) |->
                          r.speakerTalkDistribution[i][2]]) = r.totalSpeakers

----------------------------------------------------------------------------
\* The participant entries of the raw list, as <<record index, entry index>>
\* pairs, and their raw-list order.

EntryIds(t) ==
    UNION {{<<i, j>> : j \in 1..EntryCount(t[i])} : i \in Indices(t)}

Precedes(a, b) == a[1] < b[1] \/ (a[1] = b[1] /\ a[2] < b[2])

EntryAt(t, e) == Get(t[e[1]].participants)[e[2]]

\* The speakerId of an entry, else its fullName, else "Unknown".
EntryKey(t, e) ==
    IF NonEmpty(EntryAt(t, e).speakerId) THEN EntryAt(t, e).speakerId
    ELSE IF NonEmpty(EntryAt(t, e).fullName) THEN EntryAt(t, e).fullName
    ELSE "Unknown"

SpeakerKeys(t) == {EntryKey(t, e) : e \in EntryIds(t)}

EntriesOf(t, k) == {e \in EntryIds(t) : EntryKey(t, e) = k}

FirstEntryOf(t, k) ==
    CHOOSE e \in EntriesOf(t, k) : \A f \in EntriesOf(t, k) : f = e \/ Precedes(e, f)

\* The {title, code, type} of the records a key appears on, in raw-list order.
TalksOfKey(t, k) ==
    [n \in 1..Cardinality(EntriesOf(t, k)) |->
        LET e == CHOOSE e \in EntriesOf(t, k) :
                    Cardinality({f \in EntriesOf(t, k) : Precedes(f, e)}) = n - 1
        IN [title |-> t[e[1]].title, code |-> t[e[1]].code, type |-> t[e[1]].type]]

\* What the claims say of the output entry of a key: its count and its talks.
EntryOfKey(t, k) ==
    [talkCount |-> Cardinality(EntriesOf(t, k)), talks |-> TalksOfKey(t, k)]

CountAndTalks(speaker) == [talkCount |-> speaker.talkCount, talks |-> speaker.talks]

\* C8: every identity key of the raw list has exactly one entry in the
\* speakers output, whose talkCount is the number n of participant entries
\* carrying the key and whose talks are the n {title, code, type} of their
\* records in raw-list order; there is no other entry.
C8_OneEntryPerSpeakerKey ==
    IsSome(results.speakers) =>
        LET speakers == Get(results.speakers).speakers
        IN /\ Len(speakers) = Cardinality(SpeakerKeys(loaded))
           /\ \A k \in SpeakerKeys(loaded) :
                 Cardinality({i \in 1..Len(speakers) :
                                 CountAndTalks(speakers[i]) = EntryOfKey(loaded, k)})
                     = Cardinality({j \in SpeakerKeys(loaded) :
                                 EntryOfKey(loaded, j) = EntryOfKey(loaded, k)})

\* getSpeakerAnalysis has returned for a list in which one speakerId appears
\* on three records, under two names, next to other speakers.
C8_Witness ==
    /\ IsSome(results.speakers)
    /\ Cardinality(EntriesOf(loaded, "sp1")) = 3
    /\ Cardinality({EntryAt(loaded, e).fullName : e \in EntriesOf(loaded, "sp1")}) = 2
    /\ Cardinality(SpeakerKeys(loaded)) >= 2
    /\ \E i \in 1..Len(Get(results.speakers).speakers) :
          /\ Get(results.speakers).speakers[i].talkCount = 3
          /\ Len(Get(results.speakers).speakers[i].talks) = 3

\* The place of a key in the order by count descending, then first seen.
RankOfKey(t, k) ==
    1 + Cardinality({j \in SpeakerKeys(t) :
            \/ Cardinality(EntriesOf(t, j)) > Cardinality(EntriesOf(t, k))
            \/ /\ Cardinality(EntriesOf(t, j)) = Cardinality(EntriesOf(t, k))
               /\ Precedes(FirstEntryOf(t, j), FirstEntryOf(t, k))})

\* The company of an entry: companyName, else globalCompany, else "Unknown".
EntryCompany(t, e) ==
    IF NonEmpty(EntryAt(t, e).companyName) THEN EntryAt(t, e).companyName
    ELSE IF NonEmpty(EntryAt(t, e).globalCompany) THEN EntryAt(t, e).globalCompany
    ELSE "Unknown"

Companies(t) == {EntryCompany(t, e) : e \in EntryIds(t)}

EntriesOfCompany(t, c) == {e \in EntryIds(t) : EntryCompany(t, e) = c}

FirstEntryOfCompany(t, c) ==
    CHOOSE e \in EntriesOfCompany(t, c) :
        \A f \in EntriesOfCompany(t, c) : f = e \/ Precedes(e, f)

RankOfCompany(t, c) ==
    1 + Cardinality({d \in Companies(t) :
            \/ Cardinality(EntriesOfCompany(t, d)) > Cardinality(EntriesOfCompany(t, c))
            \/ /\ Cardinality(EntriesOfCompany(t, d)) = Cardinality(EntriesOfCompany(t, c))
               /\ Precedes(FirstEntryOfCompany(t, d), FirstEntryOfCompany(t, c))})

\* C9 (as stated): the speakers output is ordered by talkCount descending and,
\* among equal counts, by first appearance of the identity key in the raw
\* list, whatever the keys look like; the companies output is ordered by
\* count descending with the same tie-break.
C9_OutputInFirstSeenOrder ==
    IsSome(results.speakers) =>
        LET r == Get(results.speakers)
        IN /\ Len(r.speakers) = Cardinality(SpeakerKeys(loaded))
           /\ \A k \in SpeakerKeys(loaded) :
                 CountAndTalks(r.speakers[RankOfKey(loaded, k)]) = EntryOfKey(loaded, k)
           /\ Len(r.companies) = Cardinality(Companies(loaded))
           /\ \A c \in Companies(loaded) :
                 r.companies[RankOfCompany(loaded, c)] =
                     [name |-> c, count |-> Cardinality(EntriesOfCompany(loaded, c))]

\* C10: avgParallelSessions is at most maxParallelSessions, the first being
\* the mean of the parallelSessions values to the nearest tenth and the
\* second their maximum, and both are 0 when there is no time slot.
\* (avgParallelSessions is held in tenths.)
C10_AvgAtMostMax ==
    IsSome(results.schedule) =>
        LET r == Get(results.schedule)
            n == Len(r.parallelSessions)
            sum == SumSeq([i \in 1..n |-> r.parallelSessions[i][2]])
        IN /\ r.avgParallelSessions <= 10 * r.maxParallelSessions
           /\ \A i \in 1..n : r.parallelSessions[i][2] <= r.maxParallelSessions
           /\ n > 0 => \E i \in 1..n : r.parallelSessions[i][2] = r.maxParallelSessions
           /\ n > 0 => /\ 2 * (n * r.avgParallelSessions - 10 * sum) <= n
                       /\ 2 * (10 * sum - n * r.avgParallelSessions) <= n
           /\ n = 0 => r.avgParallelSessions = 0 /\ r.maxParallelSessions = 0

\* getScheduleAnalysis has returned with time slots of unequal load, the mean
\* falling strictly between two tenths.
C10_Witness ==
    /\ IsSome(results.schedule)
    /\ Get(results.schedule).totalTimeSlots = 3
    /\ Get(results.schedule).maxParallelSessions = 2
    /\ Get(results.schedule).avgParallelSessions = 13

----------------------------------------------------------------------------
\* The document shapes, as the claims speak of them.

\* The items field of the first section, absent when there is no section.
NestedItems(doc) ==
    IF IsSome(doc.sectionList) /\ Len(Get(doc.sectionList)) > 0
    THEN Get(doc.sectionList)[1].items ELSE None

\* The field is present and holds a sequence.
IsList(o) == IsSome(o) /\ Get(o) # NotArray

\* C11: the record list is the nested items when they are present and
\* non-empty, otherwise the top-level items when they are a sequence (also
\* when the nested items exist but are empty), otherwise the empty sequence.
C11_ExtractTalksByShape ==
    loaded = IF IsList(NestedItems(data)) /\ Len(Get(NestedItems(data))) > 0
             THEN Get(NestedItems(data))
             ELSE IF IsList(data.items) THEN Get(data.items)
             ELSE <<>>

\* The aggregates of no record at all.
ZeroBasicStats ==
    [totalTalks |-> 0, talkTypes |-> <<>>, languages |-> <<>>, avgTalkLength |-> 60]
ZeroSchedule ==
    [byDay |-> <<>>, byTimeSlot |-> <<>>, byRoom |-> <<>>, parallelSessions |-> <<>>,
     avgParallelSessions |-> 0, maxParallelSessions |-> 0, totalTimeSlots |-> 0]
ZeroSpeakers ==
    [totalSpeakers |-> 0, totalCompanies |-> 0, avgTalksPerSpeaker |-> 0,
     speakers |-> <<>>, companies |-> <<>>, speakerTalkDistribution |-> <<>>]
ZeroTopics == [topWords |-> <<>>, topTechnologies |-> <<>>, totalUniqueWords |-> 0]
ZeroRooms ==
    [rooms |-> <<>>, avgRoomCapacity |-> 0, totalCapacity |-> 0, totalRooms |-> 0]

\* The document has neither accepted shape: no sequence of nested items and
\* no sequence of top-level items.
NeitherShape(doc) == ~IsList(NestedItems(doc)) /\ ~IsList(doc.items)

\* C12: when the document has neither accepted shape, or the record list is
\* empty, every pass returns the aggregates of no record: zero counts, empty
\* mappings and lists, and an average talk length of 60.
C12_EmptyInputGivesZeroAggregates ==
    (NeitherShape(data) \/ loaded = <<>>) =>
        /\ IsSome(results.basicStats) => Get(results.basicStats) = ZeroBasicStats
        /\ IsSome(results.schedule) => Get(results.schedule) = ZeroSchedule
        /\ IsSome(results.speakers) => Get(results.speakers) = ZeroSpeakers
        /\ IsSome(results.topics) => Get(results.topics) = ZeroTopics
        /\ IsSome(results.rooms) => Get(results.rooms) = ZeroRooms

\* C13: whatever the records of a parsed snapshot are, no pass and no
\* getFullAnalysis raises: each call returns a result.
C13_NoPassRaises ==
    \A f \in {"basicStats", "schedule", "speakers", "topics", "rooms", "full"} :
        IsSome(results[f]) => Get(results[f]) # TypeError

----------------------------------------------------------------------------
\* The server, as the claims speak of it.

\* Reading the snapshot, or parsing it, fails.
LoadFails == ~file.exists \/ ~file.json

\* C14: when reading or parsing the snapshot fails, the constructor raises to
\* the server, which ends with exit code 1; it never listens and never
\* answers a request.
C14_LoadFailureIsFatal ==
    LoadFails =>
        /\ server.pc \in {"starting", "exited"}
        /\ server.response = None
        /\ server.pc = "exited" => (IsSome(server.error) /\ server.exitCode = Some(1))

C14_Witness == file = FileUnparsable /\ server.pc = "exited"

\* C15: a request for the identity key of a record (its code, else its id,
\* else its title) is answered with success and a record of that key; a
\* request for an id that is no record's session identifier or code is
\* answered 404 with success = false.
C15_LookupByIdentityKey ==
    IsSome(server.response) /\ Get(server.response).route = "talk" =>
        LET r == Get(server.response)
        IN /\ (\E i \in Indices(talks) : FirstNonEmptyKey(talks[i]) = r.id) =>
                  (r.success /\ FirstNonEmptyKey(r.data) = r.id)
           /\ (\A i \in Indices(talks) : talks[i].sessionID # r.id /\ talks[i].code # r.id) =>
                  (r.status = 404 /\ ~r.success)

----------------------------------------------------------------------------
\* The talk listing, as the claims speak of it.

\* The needle occurs somewhere in the haystack, whatever the case of letters.
OccursIn(needle, haystack) ==
    LET n == LowerCase(CharsOf(needle))
        h == LowerCase(CharsOf(haystack))
    IN \E k \in 0..(Len(h) - Len(n)) : SubSeq(h, k + 1, k + Len(n)) = n

\* A filter is supplied when its parameter has a value; the value 'all' of
\* type, date and speaker restricts nothing.
Supplied(v) == v \notin {Undefined, ""}
Restricts(v) == Supplied(v) /\ v # "all"

Satisfies(talk, q) ==
    /\ Supplied(q.search) =>
           OccursIn(q.search, talk.title) \/ OccursIn(q.search, talk.abstract)
    /\ Restricts(q.type) => talk.type = q.type
    /\ Restricts(q.date) =>
           \E j \in 1..SlotCount(talk) : Get(talk.times)[j].date = q.date
    /\ Restricts(q.speaker) =>
           \E j \in 1..EntryCount(talk) :
               \/ OccursIn(q.speaker, Get(talk.participants)[j].fullName)
               \/ OccursIn(q.speaker, Get(talk.participants)[j].globalFullName)

\* The records that satisfy every supplied filter, in the order of the list.
Matching(t, q) == SelectSeq(t, LAMBDA talk : Satisfies(talk, q))

\* C16: the talk listing answers with the records of the raw list that
\* satisfy all the supplied filters, in the order of the list (all of them
\* without page and limit, the second one for page 2 of pages of 1), and
\* totalTalks is their number before pagination.
C16_ListingReturnsMatchingTalks ==
    IsSome(server.response) /\ Get(server.response).route = "talks" =>
        LET r == Get(server.response)
            q == r.query
            matching == Matching(talks, q)
        IN /\ r.success
           /\ r.data.totalTalks = Len(matching)
           /\ q.page = Undefined => r.data.talks = matching
           /\ q.page = "2" => r.data.talks = SubSeq(matching, 2, IF Len(matching) < 2
                                                                THEN Len(matching) ELSE 2)

C16_Witness ==
    /\ IsSome(server.response)
    /\ Get(server.response).route = "talks"
    /\ Get(server.response).query =
          [search |-> "ai", type |-> "Lab", date |-> "2025-10-06", speaker |-> "e",
           page |-> Undefined, limit |-> Undefined]
    /\ Len(talks) = 2
    /\ Len(Get(server.response).data.talks) = 1

----------------------------------------------------------------------------
\* The average talk length, as the claim speaks of it.

\* The lengths of the records that have one, once per occurrence.
RECURSIVE DefinedLengths(_)
DefinedLengths(t) ==
    IF t = <<>> THEN <<>>
    ELSE (IF IsSome(Head(t).length) THEN <<Get(Head(t).length)>> ELSE <<>>)
         \o DefinedLengths(Tail(t))

\* r is sum / n rounded to a nearest integer.
IsNearest(r, sum, n) ==
    LET d == sum - n * r IN 2 * (IF d < 0 THEN 0 - d ELSE d) <= n

\* C17: avgTalkLength is the mean, rounded to the nearest integer, of every
\* defined numeric length of the raw list, and 60 when no record has one.
C17_AvgTalkLengthIsMeanOfDefinedLengths ==
    IsSome(results.basicStats) =>
        LET lengths == DefinedLengths(loaded)
            avg == Get(results.basicStats).avgTalkLength
        IN IF lengths = <<>> THEN avg = 60
           ELSE IsNearest(avg, SumSeq(lengths), Len(lengths))

----------------------------------------------------------------------------
\* The time-slot occurrences, as the claims speak of them.

\* An occurrence is a time slot of a record: <<record index, slot index>>.
Occurrences(t) == UNION {{<<i, j>> : j \in 1..SlotCount(t[i])} : i \in Indices(t)}
SlotOf(t, o) == Get(t[o[1]].times)[o[2]]

\* The date and the formatted start time (the plain one when there is none)
\* of a time slot, as a pair.
DateAndStart(time) ==
    <<time.date,
      IF NonEmpty(time.startTimeFormatted) THEN time.startTimeFormatted
      ELSE time.startTime>>

\* The room name of a time slot, 'Virtual/TBD' when it has none.
RoomOf(time) == IF NonEmpty(time.room) THEN time.room ELSE "Virtual/TBD"

\* C18: totalTimeSlots is the number of distinct (date, start time) pairs of
\* the occurrences; parallelSessions has one entry for each pair, holding the
\* number of occurrences with that pair, and no entry stands for two pairs.
C18_OneEntryPerDateAndStart ==
    IsSome(results.schedule) =>
        LET r == Get(results.schedule)
            occ == Occurrences(loaded)
            pairs == {DateAndStart(SlotOf(loaded, o)) : o \in occ}
        IN /\ r.totalTimeSlots = Cardinality(pairs)
           /\ Len(r.parallelSessions) = Cardinality(pairs)
           /\ \A p \in pairs :
                 CountAt(r.parallelSessions, p[1] \o "_" \o p[2]) =
                     Cardinality({o \in occ : DateAndStart(SlotOf(loaded, o)) = p})

\* C19: the rooms of getRoomAnalysis are the room names of the occurrences
\* ('Virtual/TBD' for an occurrence without one), each once; a room's
\* sessionCount is the number of occurrences with that name, so that every
\* occurrence is counted in exactly one room; and it is schedule.byRoom of
\* that room.
C19_RoomsCountEveryOccurrence ==
    IsSome(results.rooms) =>
        LET rooms == Get(results.rooms).rooms
            occ == Occurrences(loaded)
        IN /\ {rooms[i].name : i \in 1..Len(rooms)} = {RoomOf(SlotOf(loaded, o)) : o \in occ}
           /\ \A i, j \in 1..Len(rooms) : i # j => rooms[i].name # rooms[j].name
           /\ \A i \in 1..Len(rooms) :
                 rooms[i].sessionCount =
                     Cardinality({o \in occ : RoomOf(SlotOf(loaded, o)) = rooms[i].name})
           /\ SumSeq([i \in 1..Len(rooms) |-> rooms[i].sessionCount]) = Cardinality(occ)
           /\ IsSome(results.schedule) =>
                 /\ Len(Get(results.schedule).byRoom) = Len(rooms)
                 /\ \A i \in 1..Len(rooms) :
                       CountAt(Get(results.schedule).byRoom, rooms[i].name) =
                           rooms[i].sessionCount

\* Both passes have run on occurrences of two rooms, three of them without a
\* room name.
C19_Witness ==
    /\ IsSome(results.rooms) /\ IsSome(results.schedule)
    /\ Cardinality(Occurrences(loaded)) = 5
    /\ Len(Get(results.rooms).rooms) = 2
    /\ Get(results.rooms).rooms[1].name = "Virtual/TBD"
    /\ Get(results.rooms).rooms[1].sessionCount = 3
    /\ CountAt(Get(results.schedule).byRoom, "Virtual/TBD") = 3

----------------------------------------------------------------------------
\* Cleaned text, as the claim speaks of it.

\* cs holds a tag: a "<" with a ">" somewhere after it.
HasTag(cs) == \E i, j \in 1..Len(cs) : i < j /\ cs[i] = "<" /\ cs[j] = ">"

\* cs holds an entity: "&", one character or more that are not ";", and ";".
HasEntity(cs) ==
    \E i, j \in 1..Len(cs) :
        /\ i + 1 < j /\ cs[i] = "&" /\ cs[j] = ";"
        /\ \A k \in (i + 1)..(j - 1) : cs[k] # ";"

\* cs has no leading and no trailing white space.
IsTrimmed(cs) == cs = <<>> \/ (~IsSpace(cs[1]) /\ ~IsSpace(cs[Len(cs)]))

Plain(cs) == \A k \in 1..Len(cs) : cs[k] \notin {"<", ">", "&", ";"}

\* What cleanText is to return for arg, where the claim says it: nothing for
\* an absent text, and for a text that is plain but for one entity, the text
\* with one space in the place of the entity, less the white space around.
\* out is the value returned.
CleanedAsClaimed(arg, out) ==
    /\ ~HasTag(out) /\ ~HasEntity(out) /\ IsTrimmed(out)
    /\ arg = None => out = <<>>
    /\ arg # None =>
          \A i, j \in 1..Len(Get(arg)) :
              LET cs == Get(arg)
              IN (/\ i + 1 < j /\ cs[i] = "&" /\ cs[j] = ";"
                  /\ Plain(SubSeq(cs, 1, i - 1)) /\ Plain(SubSeq(cs, i + 1, j - 1))
                  /\ Plain(SubSeq(cs, j + 1, Len(cs))))
                 => out = Trim(SubSeq(cs, 1, i - 1) \o <<" ">> \o SubSeq(cs, j + 1, Len(cs)))
    /\ arg = Some(CharsOf("<p>AI &amp; ML</p>")) =>
          out = <<"A", "I", " ", " ", " ", "M", "L">>

\* C20: the text cleanText returns, in the engine and in the dashboard, holds
\* no tag and no entity, each entity having become one space, and has no
\* white space at its ends; an absent text gives the empty string, and
\* '<p>AI &amp; ML</p>' gives 'AI', three spaces, 'ML'.
C20_CleanTextStripsMarkup ==
    /\ IsSome(text.output) => CleanedAsClaimed(Get(text.input), Get(text.output))
    /\ IsSome(text.display) => CleanedAsClaimed(Get(text.input), Get(text.display))

\* Both have cleaned the example abstract.
C20_Witness ==
    /\ text.input = Some(Some(CharsOf("<p>AI &amp; ML</p>")))
    /\ text.output = Some(<<"A", "I", " ", " ", " ", "M", "L">>)
    /\ text.display = text.output

----------------------------------------------------------------------------
\* The first-seen record of an identity key, as the claim speaks of it.

\* The first record of the list whose identity key is k.
FirstOfKey(t, k) ==
    t[CHOOSE i \in Indices(t) :
         /\ FirstNonEmptyKey(t[i]) = k
         /\ \A j \in 1..(i - 1) : FirstNonEmptyKey(t[j]) # k]

\* The type and the language of a record, 'Unknown' when it has none.
TypeOf(talk) == IF NonEmpty(talk.type) THEN talk.type ELSE "Unknown"
LanguageOf(talk) == IF NonEmpty(talk.language) THEN talk.language ELSE "Unknown"

\* C21: talkTypes and languages count, for each identity key, the type and
\* the language of the first record of that key in the raw list, whatever
\* the later records of the key carry.
C21_FirstSeenRecordCounts ==
    IsSome(results.basicStats) =>
        LET r == Get(results.basicStats)
            keys == {FirstNonEmptyKey(loaded[i]) : i \in Indices(loaded)}
        IN /\ {r.talkTypes[i][1] : i \in 1..Len(r.talkTypes)} =
                 {TypeOf(FirstOfKey(loaded, k)) : k \in keys}
           /\ \A i \in 1..Len(r.talkTypes) :
                 r.talkTypes[i][2] =
                     Cardinality({k \in keys :
                         TypeOf(FirstOfKey(loaded, k)) = r.talkTypes[i][1]})
           /\ {r.languages[i][1] : i \in 1..Len(r.languages)} =
                 {LanguageOf(FirstOfKey(loaded, k)) : k \in keys}
           /\ \A i \in 1..Len(r.languages) :
                 r.languages[i][2] =
                     Cardinality({k \in keys :
                         LanguageOf(FirstOfKey(loaded, k)) = r.languages[i][1]})

\* getBasicStats has run on two records of one code, a keynote in English
\* first and a lab without language second.
C21_Witness ==
    /\ Len(loaded) = 2
    /\ loaded[1].code = "A1" /\ loaded[2].code = "A1"
    /\ loaded[1].type = "Keynote" /\ loaded[2].type = "Lab"
    /\ loaded[1].language = "English" /\ loaded[2].language = Undefined
    /\ IsSome(results.basicStats)
    /\ Get(results.basicStats).talkTypes = << <<"Keynote", 1>> >>
    /\ Get(results.basicStats).languages = << <<"English", 1>> >>

----------------------------------------------------------------------------
\* The speaker key with the global name, as the claim speaks of it.

\* The speakerId, else the fullName, else the globalFullName, else 'Unknown'.
KeyWithGlobalName(participant) ==
    IF NonEmpty(participant.speakerId) THEN participant.speakerId
    ELSE IF NonEmpty(participant.fullName) THEN participant.fullName
    ELSE IF NonEmpty(participant.globalFullName) THEN participant.globalFullName
    ELSE "Unknown"

\* C22: participants are grouped by their speakerId, else their fullName,
\* else their globalFullName, and only then under 'Unknown': there are as
\* many speakers as such keys, so that two participants known by distinct
\* global names only are two speakers.
C22_GlobalNameIsAKey ==
    IsSome(results.speakers) =>
        Get(results.speakers).totalSpeakers =
            Cardinality({KeyWithGlobalName(EntryAt(loaded, e)) : e \in EntryIds(loaded)})

----------------------------------------------------------------------------
\* The tokens of a text, as the claim speaks of them.

\* White space, and the punctuation, bracket and quote characters.
TokenSeparators ==
    {" ", "\t", "\n", "\r", ".", ",", ";", ":", "!", "?", "(", ")", "[", "]",
     "{", "}", "\"", "'", "-"}

\* The pieces of cs between separators, cur being the piece under way.
RECURSIVE TokensOf(_, _)
TokensOf(cs, cur) ==
    IF cs = <<>> THEN {cur}
    ELSE IF Head(cs) \in TokenSeparators THEN {cur} \cup TokensOf(Tail(cs), <<>>)
    ELSE TokensOf(Tail(cs), Append(cur, Head(cs)))

\* A token to count: longer than 2, no stop word, not made of digits only.
IsCounted(token) ==
    /\ Len(token) > 2
    /\ Join(token) \notin commonWords
    /\ \E i \in 1..Len(token) : DigitValue(token[i]) < 0

\* The counted tokens of the lower-cased title and cleaned abstract of the
\* records of t.
CountedTokens(t) ==
    UNION {{Join(token) : token \in {k \in TokensOf(TopicText(t[i]), <<>>) : IsCounted(k)}} :
              i \in Indices(t)}

\* C23: every word of topWords is a token of the lower-cased title and
\* cleaned abstract of some record, split on white space and on punctuation,
\* bracket and quote characters, that is longer than 2, no stop word and not
\* purely numeric; and totalUniqueWords is the number of such tokens.
C23_WordsAreTokens ==
    IsSome(results.topics) =>
        LET r == Get(results.topics)
        IN /\ \A i \in 1..Len(r.topWords) : r.topWords[i].word \in CountedTokens(loaded)
           /\ r.totalUniqueWords = Cardinality(CountedTokens(loaded))

----------------------------------------------------------------------------
\* The capacities, as the claim speaks of them.

\* The integer a capacity parses to, 0 when it does not parse or is absent.
ParsedCapacity(time) ==
    CASE time.capacity = "100" -> 100
      [] time.capacity = "50" -> 50
      [] time.capacity = "12 seats" -> 12
      [] time.capacity = "-5" -> -5
      [] OTHER -> 0

\* The positive capacity of a time slot, 0 when it has none; whether it has one.
SeatsOf(time) == IF ParsedCapacity(time) > 0 THEN ParsedCapacity(time) ELSE 0
Seated(time) == IF ParsedCapacity(time) > 0 THEN 1 ELSE 0

\* The sum of F over the occurrences of t, F being SeatsOf or Seated.
TotalSeats(t) ==
    SumSeq([i \in Indices(t) |->
        SumSeq([j \in 1..SlotCount(t[i]) |-> SeatsOf(Get(t[i].times)[j])])])
TotalSeated(t) ==
    SumSeq([i \in Indices(t) |->
        SumSeq([j \in 1..SlotCount(t[i]) |-> Seated(Get(t[i].times)[j])])])

\* C24: totalCapacity is the sum of the positive parsed capacities of the
\* occurrences, and the sum of the rooms' totalSeats; avgRoomCapacity is that
\* sum over the number of occurrences with a positive capacity, rounded to
\* the nearest integer, and 0 when there is none.  A capacity that does not
\* parse counts for nothing in either.
C24_CapacityAggregates ==
    IsSome(results.rooms) =>
        LET r == Get(results.rooms)
        IN /\ r.totalCapacity = TotalSeats(loaded)
           /\ SumSeq([i \in 1..Len(r.rooms) |-> r.rooms[i].totalSeats]) = TotalSeats(loaded)
           /\ IF TotalSeated(loaded) = 0 THEN r.avgRoomCapacity = 0
              ELSE IsNearest(r.avgRoomCapacity, TotalSeats(loaded), TotalSeated(loaded))

\* getRoomAnalysis has run on capacities 100, none, 'abc' and -5: one
\* occurrence of four has seats.
C24_Witness ==
    /\ Len(loaded) = 2
    /\ loaded[1].times = Some(<<SlotA, SlotB>>)
    /\ loaded[2].times = Some(<<SlotG, SlotH>>)
    /\ IsSome(results.rooms)
    /\ Get(results.rooms).totalCapacity = 100
    /\ Get(results.rooms).avgRoomCapacity = 100

----------------------------------------------------------------------------
\* The fetch script's run, as the claims speak of it.

\* The offsets requested so far, in the order of the requests.
Offsets(f) == [i \in 1..Len(f.requests) |-> f.requests[i].from]

\* The total the first page reported, absent read as 0.
ReportedTotal(f) ==
    IF IsSome(f.pages[1].totalSearchItems) THEN Get(f.pages[1].totalSearchItems) ELSE 0

\* 0, and the multiples of 50 below T, in increasing order.
ExpectedOffsets(T) ==
    [i \in 1..(1 + Cardinality({k \in 1..MaxPages : 50 * k < T})) |-> 50 * (i - 1)]

\* C25: the page requests are strictly sequential: at most one is in flight,
\* each is issued when none is in flight and every earlier response has
\* been received, and 500 ms of delay have elapsed since the request before
\* it, the request for offset 50 included.
C25_SequentialWithDelay ==
    fetcher.pc # "off" =>
        /\ fetcher.inFlight <= 1
        /\ \A i \in 1..Len(fetcher.requests) :
              /\ fetcher.requests[i].inFlight = 0
              /\ fetcher.requests[i].received = i - 1
              /\ i > 1 => fetcher.requests[i].waited >= 500

\* A request has raised: the run ended in the catch with a request's error.
RequestRaised ==
    /\ fetcher.pc = "failed"
    /\ fetcher.error \in {Some(FetchRejected), Some(JsonRejected)}

\* The loop is over: main() is past line 81, at its end.
LoopOver == fetcher.pc \in {"done", "failed"} /\ ~RequestRaised

\* C26: when every request returns, the loop terminates, and the offsets
\* requested are then exactly 0 and the multiples of 50 below the reported
\* total, each once, in increasing order.
C26_LoopTerminates ==
    <>(RequestRaised
       \/ (LoopOver /\ Offsets(fetcher) = ExpectedOffsets(ReportedTotal(fetcher))))

\* A run over three pages has ended with the snapshot written.
C26_Witness ==
    /\ fetcher.pc = "done"
    /\ ReportedTotal(fetcher) = 101
    /\ Offsets(fetcher) = <<0, 50, 100>>

\* C27: output.json is written at most once, and only when every page
\* request has completed; until then, and whenever the run ends in the
\* catch (a request or the decoding raised, or the first page has no
\* sectionList), the error is logged and the file is as it was.
C27_WrittenOnceAfterAllPages ==
    fetcher.pc # "off" =>
        /\ fetcher.writes <= 1
        /\ fetcher.writes = 0 => file = fetcher.original
        /\ fetcher.writes = 1 =>
              /\ fetcher.pc = "done"
              /\ fetcher.inFlight = 0
              /\ Len(fetcher.pages) = Len(fetcher.requests)
              /\ Offsets(fetcher) = ExpectedOffsets(ReportedTotal(fetcher))
        /\ fetcher.pc = "failed" => IsSome(fetcher.error) /\ fetcher.writes = 0
        /\ (Len(fetcher.pages) > 0 /\ fetcher.pages[1].sectionList = None) =>
              fetcher.writes = 0

\* A run whose first page had no sectionList has fetched two pages and
\* ended in the catch, over an older snapshot.
C27_Witness ==
    /\ fetcher.pc = "failed"
    /\ fetcher.error = Some(TypeError)
    /\ Len(fetcher.pages) = 2
    /\ fetcher.pages[1].sectionList = None
    /\ fetcher.original = FileOf(SectionDoc(<<ItemC>>))
    /\ file = fetcher.original

\* The items of a page: those of its first section for the first page; for a
\* later page those at its root when they are an array, else those of its
\* first section.
SectionItemsOf(page) ==
    IF page.sectionList \in {None, Some(<<>>), Some(<<[items |-> None]>>)} THEN <<>>
    ELSE Get(Get(page.sectionList)[1].items)

RootItemsUsed(page) == page.items \notin {None, Some(NotArray)}

ItemsFetched(pages, i) ==
    IF i = 1 THEN SectionItemsOf(pages[i])
    ELSE IF RootItemsUsed(pages[i]) THEN Get(pages[i].items)
    ELSE SectionItemsOf(pages[i])

\* The items of the pages from the i-th on, in the order of the pages.
RECURSIVE ItemsFrom(_, _)
ItemsFrom(pages, i) ==
    IF i > Len(pages) THEN <<>>
    ELSE ItemsFetched(pages, i) \o ItemsFrom(pages, i + 1)

\* The engine has loaded the snapshot a completed run wrote.
LoadedWritten ==
    /\ fetcher.pc = "done"
    /\ server.pc = "loaded"
    /\ data = file.doc

\* C28: the engine that loads the snapshot of a completed run has for talks
\* the items of the fetched pages, concatenated in the order of the offsets.
C28_RoundTrip ==
    LoadedWritten => talks = ItemsFrom(fetcher.pages, 1)

\* Three pages were fetched, the second with its items at the root and the
\* third with its items in a section, and the engine has loaded them.
C28_Witness ==
    /\ LoadedWritten
    /\ Len(fetcher.pages) = 3
    /\ fetcher.pages[2].items = Some(<<ItemB, ItemA>>)
    /\ fetcher.pages[3].items = Some(NotArray)
    /\ talks = <<ItemA, ItemB, ItemB, ItemA, ItemC>>

----------------------------------------------------------------------------
\* The pages of the talk listing, as the claim speaks of them.

\* The page and the limit a query asks for: the number it gives, and the
\* default when it gives none, zero, or no number.
AskedNumber(v, dflt) ==
    CASE v = "1" -> 1 [] v = "2" -> 2 [] v = "3" -> 3 [] v = "-1" -> -1 [] OTHER -> dflt

\* c is the least integer that is at least n / d.
IsCeil(c, n, d) ==
    IF d > 0 THEN c * d >= n /\ (c - 1) * d < n
    ELSE c * d <= n /\ (c - 1) * d > n

\* s is a run of consecutive elements of t.
IsContiguousSlice(s, t) ==
    \E a \in 0..Len(t) : Len(s) <= Len(t) - a /\ s = SubSeq(t, a + 1, a + Len(s))

\* The query string of a page number.
PageText(p) ==
    CASE p = 1 -> "1" [] p = 2 -> "2" [] p = 3 -> "3" [] p = 4 -> "4" [] p = 5 -> "5"

\* The talks the pages p..last of the query answer with, one after the other.
RECURSIVE PagesFrom(_, _, _, _)
PagesFrom(t, q, p, last) ==
    IF p > last THEN <<>>
    ELSE TalksResponse(t, [q EXCEPT !.page = PageText(p)]).data.talks
         \o PagesFrom(t, q, p + 1, last)

\* C29: whatever page and limit the query gives, the talks returned are a
\* contiguous slice of the filtered list of at most limit records,
\* totalPages is the ceiling of the filtered count over limit, and the
\* pages 1..totalPages, one after the other, are the filtered list.
C29_PagesPartitionTheList ==
    IsSome(server.response) /\ Get(server.response).route = "talks" =>
        LET r == Get(server.response)
            q == r.query
            limit == AskedNumber(q.limit, 20)
            matching == Matching(talks, q)
        IN /\ r.success
           /\ IsContiguousSlice(r.data.talks, matching)
           /\ Len(r.data.talks) <= limit
           /\ IsCeil(r.data.totalPages, Len(matching), limit)
           /\ PagesFrom(talks, q, 1, r.data.totalPages) = matching

----------------------------------------------------------------------------
\* The dashboard's talk list, as the claim speaks of it.

\* Every response has arrived.
AllArrived ==
    /\ dashboard.pc = "ready"
    /\ dashboard.inFlight = {}

\* C30: once every response has arrived, talksData is the response to the
\* request loadTalks issued last, in whatever order the responses came.
C30_LatestRequestIsShown ==
    AllArrived =>
        dashboard.talksData = Some(TalksResponse(talks, Get(dashboard.last).query).data)

====
